---- MODULE Spec2Model ----
(***************************************************************************)
(* State-machine model of the URL shortener's resolution service           *)
(* (internal/service/url_service.go), its durable store                    *)
(* (internal/repository/postgres/url_repository.go), its cache             *)
(* (internal/repository/redis/cache_repository.go) and the domain entity   *)
(* (internal/domain/url.go).                                               *)
(*                                                                         *)
(* Strings that the code inspects character by character (identifiers)     *)
(* are sequences of one-character strings.  An optional timestamp (a nil   *)
(* or non-nil pointer) is a set with at most one element.  Every call to   *)
(* the store or to the cache is one atomic step of the calling request;    *)
(* the local computation between two calls belongs to the step of the      *)
(* call that follows it.                                                   *)
(***************************************************************************)
EXTENDS Integers, Sequences, FiniteSets, TLC

----------------------------------------------------------------------------
(* Bounds of the model *)

\* the clock runs from 0 to MaxTime
MaxTime == 1
\* number of service calls issued in one behaviour
MaxOps == 3
\* rows of the table beyond which callers ask for no further custom identifier
MaxRows == 1
\* number of times the cache lets the service down in one behaviour: a call
\* to it fails, or the time to live of one of its entries runs out
MaxCacheFaults == 1

\* request-handling goroutines
Procs == {"p1", "p2"}
\* each request goroutine serves one caller: the API key of its caller
APIKeyOf == [p \in Procs |-> IF p = "p1" THEN "key-1" ELSE "key-2"]

----------------------------------------------------------------------------
(* Identifier codec: internal/service/id_generator.go *)

base62Chars ==
    << "0","1","2","3","4","5","6","7","8","9",
       "a","b","c","d","e","f","g","h","i","j","k","l","m",
       "n","o","p","q","r","s","t","u","v","w","x","y","z",
       "A","B","C","D","E","F","G","H","I","J","K","L","M",
       "N","O","P","Q","R","S","T","U","V","W","X","Y","Z" >>

base62Base == Len(base62Chars)

defaultIDLength == 6

\* a generator that keeps whatever length it is given
NewIDGeneratorUnchecked(length) == length

\* NewIDGenerator(length).length
NewIDGenerator(length) == IF length < 3 THEN defaultIDLength ELSE length

\* rand.Int(rand.Reader, 62) drawn g.length times: the draws the model takes,
\* which spell aBc123 and 00000Z
RandomDraws == { <<10, 37, 12, 1, 2, 3>>, <<0, 0, 0, 0, 0, 61>> }

\* Generate() for one sequence of draws
Generate(length, draws) == [k \in 1..length |-> base62Chars[draws[k] + 1]]

\* an IsValidID that accepts the empty string
IsValidIDOrEmpty(id) ==
    \A k \in 1..Len(id) : \E j \in 1..Len(base62Chars) : base62Chars[j] = id[k]

\* IsValidID(id)
IsValidID(id) ==
    /\ Len(id) # 0
    /\ \A k \in 1..Len(id) : \E j \in 1..Len(base62Chars) : base62Chars[j] = id[k]

----------------------------------------------------------------------------
(* Domain entity and validation: internal/domain/url.go *)

Digits == { base62Chars[k] : k \in 1..10 }
LowerCase == { base62Chars[k] : k \in 11..36 }
UpperCase == { base62Chars[k] : k \in 37..62 }

\* unicode.IsSpace, the set strings.TrimSpace cuts: the six ASCII blanks, NEL
\* and NBSP of Latin-1, and the other code points of category White_Space
WhiteSpace ==
    { " ", "\t", "\n", "U+000B", "\f", "\r", "U+0085", "U+00A0",
      "U+1680", "U+2000", "U+2001", "U+2002", "U+2003", "U+2004", "U+2005",
      "U+2006", "U+2007", "U+2008", "U+2009", "U+200A", "U+2028", "U+2029",
      "U+202F", "U+205F", "U+3000" }

RECURSIVE TrimLeft(_)
TrimLeft(s) ==
    IF s # <<>> /\ Head(s) \in WhiteSpace THEN TrimLeft(Tail(s)) ELSE s

RECURSIVE TrimRight(_)
TrimRight(s) ==
    IF s # <<>> /\ s[Len(s)] \in WhiteSpace
    THEN TrimRight(SubSeq(s, 1, Len(s) - 1))
    ELSE s

\* strings.TrimSpace
TrimSpace(s) == TrimRight(TrimLeft(s))

\* strings.ToLower on one ASCII character
LowerChar(c) ==
    IF c \in UpperCase
    THEN base62Chars[(CHOOSE k \in 37..62 : base62Chars[k] = c) - 26]
    ELSE c

ToLower(s) == [k \in 1..Len(s) |-> LowerChar(s[k])]

reservedWords ==
    { <<"a","p","i">>, <<"h","e","a","l","t","h">>, <<"a","d","m","i","n">>,
      <<"w","w","w">>, <<"a","p","p">>, <<"d","e","v">>,
      <<"s","t","a","g","e">>, <<"p","r","o","d">> }

\* a validation that compares with the reserved words as written
ValidateCustomIDCaseSensitive(customID) ==
    /\ ~ (Len(customID) < 3 \/ Len(customID) > 50)
    /\ \A k \in 1..Len(customID) :
          \/ customID[k] \in LowerCase
          \/ customID[k] \in UpperCase
          \/ customID[k] \in Digits
          \/ customID[k] = "-"
    /\ customID \notin reservedWords

\* ValidateCustomID(customID) = nil
ValidateCustomID(customID) ==
    /\ ~ (Len(customID) < 3 \/ Len(customID) > 50)
    /\ \A k \in 1..Len(customID) :
          \/ customID[k] \in LowerCase
          \/ customID[k] \in UpperCase
          \/ customID[k] \in Digits
          \/ customID[k] = "-"
    /\ ToLower(customID) \notin reservedWords

\* net/url.Parse on the URLs the model submits
ParseURL(rawURL) ==
    CASE rawURL = "https://example.com/x" ->
            [err |-> FALSE, Scheme |-> "https", Host |-> "example.com"]
      [] rawURL = "http://example.org/y" ->
            [err |-> FALSE, Scheme |-> "http", Host |-> "example.org"]
      [] rawURL = "ftp://example.com/f" ->
            [err |-> FALSE, Scheme |-> "ftp", Host |-> "example.com"]
      [] rawURL = "https:///nohost" ->
            [err |-> FALSE, Scheme |-> "https", Host |-> ""]
      [] rawURL = "example.com/x" ->
            [err |-> FALSE, Scheme |-> "", Host |-> ""]
      [] rawURL = "http://[::1" ->
            [err |-> TRUE, Scheme |-> "", Host |-> ""]
      [] OTHER ->
            [err |-> FALSE, Scheme |-> "", Host |-> ""]

\* ValidateOriginalURL(rawURL) = nil
ValidateOriginalURL(rawURL) ==
    /\ rawURL # ""
    /\ ~ ParseURL(rawURL).err
    /\ ~ (ParseURL(rawURL).Scheme # "http" /\ ParseURL(rawURL).Scheme # "https")
    /\ ParseURL(rawURL).Host # ""

\* the zero value of domain.URL
NoURL ==
    [ ID |-> <<>>, OriginalURL |-> "", ExpiresAt |-> {}, ClickCount |-> 0,
      IsActive |-> FALSE, LastAccessedAt |-> {}, CreatedByAPIKey |-> "" ]

\* a constructor that leaves IsActive at its zero value
NewURLInactive(id, originalURL, expiresAt, apiKey) ==
    [ ID |-> id, OriginalURL |-> originalURL, ExpiresAt |-> expiresAt,
      ClickCount |-> 0, IsActive |-> FALSE, LastAccessedAt |-> {},
      CreatedByAPIKey |-> apiKey ]

NewURL(id, originalURL, expiresAt, apiKey) ==
    [ ID |-> id, OriginalURL |-> originalURL, ExpiresAt |-> expiresAt,
      ClickCount |-> 0, IsActive |-> TRUE, LastAccessedAt |-> {},
      CreatedByAPIKey |-> apiKey ]

\* an expiry test that counts the instant of expires_at itself as expired
IsExpiredAtDeadline(u, t) ==
    IF u.ExpiresAt = {} THEN FALSE ELSE \E e \in u.ExpiresAt : t >= e

\* time.Now().After(ExpiresAt) of URL.IsExpired, at clock value t
IsExpired(u, t) ==
    IF u.ExpiresAt = {} THEN FALSE ELSE \E e \in u.ExpiresAt : t > e

\* an accessibility check that passes every record
IsAccessibleAlways(u, t) == TRUE

IsAccessible(u, t) == u.IsActive /\ ~ IsExpired(u, t)

----------------------------------------------------------------------------
(* Durable store: internal/repository/postgres/url_repository.go.          *)
(* The table urls is a set of rows; id is its primary key.                 *)

RowsByID(rows, id) == { r \in rows : r.ID = id }

\* an existence check that overlooks deactivated rows
ExistsByIDActive(rows, id) == \E r \in RowsByID(rows, id) : r.IsActive

\* SELECT EXISTS(SELECT 1 FROM urls WHERE id = $1)
ExistsByID(rows, id) == RowsByID(rows, id) # {}

\* a table without its primary key: no INSERT fails
DuplicateKeyIgnored(rows, url) == FALSE

\* the INSERT of urlRepository.Create fails with "duplicate key"
DuplicateKey(rows, url) == RowsByID(rows, url.ID) # {}

\* the table after the INSERT of urlRepository.Create went through
\* (last_accessed_at is not among the inserted columns)
StoreCreate(rows, url) ==
    rows \cup { [url EXCEPT !.LastAccessedAt = {}] }

\* a lookup that also returns deactivated rows
GetByIDAnyState(rows, id) == RowsByID(rows, id)

\* SELECT ... WHERE id = $1 AND is_active = true: the rows found
GetByID(rows, id) == { r \in RowsByID(rows, id) : r.IsActive = TRUE }

\* UPDATE urls SET original_url, expires_at, click_count, is_active,
\* last_accessed_at WHERE id = $1
StoreUpdate(rows, url) ==
    { IF r.ID = url.ID
      THEN [r EXCEPT !.OriginalURL = url.OriginalURL,
                     !.ExpiresAt = url.ExpiresAt,
                     !.ClickCount = url.ClickCount,
                     !.IsActive = url.IsActive,
                     !.LastAccessedAt = url.LastAccessedAt]
      ELSE r : r \in rows }

\* a hard delete: DELETE FROM urls WHERE id = $2
StoreDeleteRow(rows, id) == { r \in rows : r.ID # id }

\* UPDATE urls SET is_active = false WHERE id = $2
StoreDelete(rows, id) ==
    { IF r.ID = id THEN [r EXCEPT !.IsActive = FALSE] ELSE r : r \in rows }

\* rows the UPDATE of IncrementClickCount matches: id = $2 AND is_active
ClickTargets(rows, id) == { r \in RowsByID(rows, id) : r.IsActive = TRUE }

\* UPDATE urls SET click_count = click_count + 1, last_accessed_at = $1
\* WHERE id = $2 AND is_active = true
IncrementClickCount(rows, id, t) ==
    { IF r \in ClickTargets(rows, id)
      THEN [r EXCEPT !.ClickCount = r.ClickCount + 1, !.LastAccessedAt = {t}]
      ELSE r : r \in rows }

\* UpdateLastAccessed: UPDATE urls SET last_accessed_at = $1, updated_at = $1
\* WHERE id = $2 AND is_active = true, and an error when no row is affected;
\* no function of the service calls it
UpdateLastAccessed(rows, id, t) ==
    [ rows |-> { IF r \in ClickTargets(rows, id)
                 THEN [r EXCEPT !.LastAccessedAt = {t}]
                 ELSE r : r \in rows },
      failed |-> ClickTargets(rows, id) = {} ]

\* a sweep that also takes the rows expiring at the instant itself
ExpiredRowsInclusive(rows, before) ==
    { r \in rows : r.IsActive = TRUE /\ \E e \in r.ExpiresAt : e <= before }

\* rows the UPDATE of DeleteExpiredURLs matches: expires_at < $2 AND is_active
ExpiredRows(rows, before) ==
    { r \in rows : r.IsActive = TRUE /\ \E e \in r.ExpiresAt : e < before }

\* UPDATE urls SET is_active = false WHERE expires_at < $2 AND is_active = true
DeleteExpiredURLs(rows, before) ==
    { IF r \in ExpiredRows(rows, before)
      THEN [r EXCEPT !.IsActive = FALSE]
      ELSE r : r \in rows }

\* rows matching a filter on is_active that ignores the owner
ListMatchingAnyOwner(rows, apiKey, isActive) ==
    { r \in rows : isActive = {} \/ r.IsActive \in isActive }

\* List: WHERE created_by_api_key = $1 [AND is_active = $2]; the optional
\* filter isActive is {} when it is nil
ListMatching(rows, apiKey, isActive) ==
    { r \in rows : /\ r.CreatedByAPIKey = apiKey
                   /\ isActive = {} \/ r.IsActive \in isActive }

\* List: LIMIT and OFFSET applied to totalCount matching rows give this many rows
PageSize(options, totalCount) ==
    LET offset == (options.Page - 1) * options.Limit
        rest == IF totalCount > offset THEN totalCount - offset ELSE 0
    IN IF rest < options.Limit THEN rest ELSE options.Limit

\* List: the pages the SELECT can return; which of the matching rows come
\* first is decided by created_at, click_count or last_accessed_at
ListPages(rows, apiKey, options) ==
    LET matching == ListMatching(rows, apiKey, options.IsActive) IN
    { page \in SUBSET matching :
        Cardinality(page) = PageSize(options, Cardinality(matching)) }

----------------------------------------------------------------------------
(* Cache: internal/repository/redis/cache_repository.go.                   *)
(* The cache is the set of values stored under the keys url:<id>.          *)

\* json.Marshal / json.Unmarshal of a domain.URL: CreatedByAPIKey is
\* tagged json:"-" and does not survive
JSONRoundTrip(url) == [url EXCEPT !.CreatedByAPIKey = ""]

\* SET url:<id> <json> EX ttl
CacheSetURL(entries, url) ==
    { e \in entries : e.ID # url.ID } \cup { JSONRoundTrip(url) }

\* GET url:<id>: the value found (none: redis.Nil)
CacheGetURL(entries, id) == { e \in entries : e.ID = id }

\* DEL url:<id>
CacheDeleteURL(entries, id) == { e \in entries : e.ID # id }

----------------------------------------------------------------------------
(* Service errors: internal/service/errors.go *)

ErrCodeValidation == "validation_failed"
ErrCodeNotFound == "not_found"
ErrCodeConflict == "conflict"
ErrCodeInternalError == "internal_error"
ErrCodeUnauthorized == "unauthorized"
ErrCodeRateLimit == "rate_limit_exceeded"
ErrCodeExpired == "expired"

\* a nil error
NoError == [Code |-> "ok", About |-> ""]
\* no result yet
NoResult == [Code |-> "none", About |-> ""]

NewValidationError(field) == [Code |-> ErrCodeValidation, About |-> field]
NewNotFoundError(resource) == [Code |-> ErrCodeNotFound, About |-> resource]
NewConflictError(resource) == [Code |-> ErrCodeConflict, About |-> resource]
NewInternalError(message) == [Code |-> ErrCodeInternalError, About |-> message]
NewUnauthorizedError(message) == [Code |-> ErrCodeUnauthorized, About |-> message]
NewExpiredError(resource) == [Code |-> ErrCodeExpired, About |-> resource]

NewRateLimitError(window) == [Code |-> ErrCodeRateLimit, About |-> window]

\* an error that is not a *service.ServiceError
PlainError == [Code |-> "", About |-> "error"]

----------------------------------------------------------------------------
(* HTTP status of an error: internal/domain/url.go 651-684 *)

\* a mapping that answers an expired record like a missing one
StatusExpiredAsNotFound(code) ==
    IF code = ErrCodeValidation THEN 400
    ELSE IF code \in {ErrCodeNotFound, ErrCodeExpired} THEN 404
    ELSE IF code = ErrCodeConflict THEN 409
    ELSE IF code = ErrCodeUnauthorized THEN 401
    ELSE IF code = ErrCodeRateLimit THEN 429
    ELSE 500

\* getHTTPStatusFromErrorCode(code)
getHTTPStatusFromErrorCode(code) ==
    IF code = ErrCodeValidation THEN 400
    ELSE IF code = ErrCodeNotFound THEN 404
    ELSE IF code = ErrCodeConflict THEN 409
    ELSE IF code = ErrCodeUnauthorized THEN 401
    ELSE IF code = ErrCodeRateLimit THEN 429
    ELSE IF code = ErrCodeExpired THEN 410
    ELSE IF code = ErrCodeInternalError THEN 500
    ELSE 500

\* the status handleError answers with
handleError(err) ==
    IF err = PlainError THEN 500 ELSE getHTTPStatusFromErrorCode(err.Code)

----------------------------------------------------------------------------
(* Number codec: internal/service/id_generator.go 51-95.                   *)
(* An int64 is four 16-bit limbs, least significant first, in two's         *)
(* complement; arithmetic wraps at 64 bits as Go's does.                    *)

LimbBase == 65536

\* the int64 of a number n with 0 <= n < 2^31
Int64Of(n) == << n % LimbBase, (n \div LimbBase) % LimbBase, 0, 0 >>

\* -1, math.MaxInt64 and math.MinInt64
MinusOne64 == << 65535, 65535, 65535, 65535 >>
MaxInt64 == << 65535, 65535, 65535, 32767 >>
MinInt64 == << 0, 0, 0, 32768 >>

IsZero64(x) == x = << 0, 0, 0, 0 >>

\* the sign bit
IsNegative64(x) == x[4] >= LimbBase \div 2

\* x + y
Add64(x, y) ==
    LET t1 == x[1] + y[1]
        t2 == x[2] + y[2] + (t1 \div LimbBase)
        t3 == x[3] + y[3] + (t2 \div LimbBase)
        t4 == x[4] + y[4] + (t3 \div LimbBase)
    IN << t1 % LimbBase, t2 % LimbBase, t3 % LimbBase, t4 % LimbBase >>

\* x * m for 0 <= m <= 10000
MulSmall64(x, m) ==
    LET t1 == x[1] * m
        t2 == x[2] * m + (t1 \div LimbBase)
        t3 == x[3] * m + (t2 \div LimbBase)
        t4 == x[4] * m + (t3 \div LimbBase)
    IN << t1 % LimbBase, t2 % LimbBase, t3 % LimbBase, t4 % LimbBase >>

\* x / d and x % d for x >= 0 and 0 < d <= 62
DivMod64(x, d) ==
    LET q4 == x[4] \div d
        a3 == (x[4] % d) * LimbBase + x[3]
        q3 == a3 \div d
        a2 == (a3 % d) * LimbBase + x[2]
        q2 == a2 \div d
        a1 == (a2 % d) * LimbBase + x[1]
        q1 == a1 \div d
    IN [ quot |-> << q1, q2, q3, q4 >>, rem |-> a1 % d ]

Reverse(s) == [k \in 1..Len(s) |-> s[Len(s) + 1 - k]]

\* lines 58-62: the loop of EncodeNumber, which writes the least significant
\* digit first and stops at num <= 0
RECURSIVE EncodeLoop(_)
EncodeLoop(num) ==
    IF IsZero64(num) \/ IsNegative64(num)
    THEN << >>
    ELSE LET dm == DivMod64(num, base62Base) IN
         << base62Chars[dm.rem + 1] >> \o EncodeLoop(dm.quot)

\* an encoder that leaves out the reversal
EncodeNumberLeastFirst(num) == IF IsZero64(num) THEN << "0" >> ELSE EncodeLoop(num)

\* EncodeNumber(num)
EncodeNumber(num) == IF IsZero64(num) THEN << "0" >> ELSE Reverse(EncodeLoop(num))

\* the bytes of a character in UTF-8: the letter U+00E9 takes two
UTF8Char(c) == IF c = "U+00E9" THEN << "0xC3", "0xA9" >> ELSE << c >>

\* the bytes of a string
RECURSIVE UTF8(_)
UTF8(str) == IF str = << >> THEN << >> ELSE UTF8Char(Head(str)) \o UTF8(Tail(str))

\* string(char) for a byte: the character with that code point
ByteToString(b) ==
    IF b = "0xC3" THEN "U+00C3" ELSE IF b = "0xA9" THEN "U+00A9" ELSE b

\* strings.IndexByte(base62Chars, char), 0 - 1 if there is none
IndexByte(char) ==
    IF \E j \in 1..Len(base62Chars) : base62Chars[j] = char
    THEN (CHOOSE j \in 1..Len(base62Chars) : base62Chars[j] = char) - 1
    ELSE 0 - 1

\* what DecodeToNumber returns
Decoded(num, err, character, position) ==
    [ num |-> num, err |-> err, character |-> character, position |-> position ]

\* lines 80-92: the loop of DecodeToNumber over the bytes from the last (i is
\* the index of the byte, counted from 1) to the first
RECURSIVE DecodeLoop(_, _, _, _)
DecodeLoop(bytes, i, result, power) ==
    IF i = 0
    THEN Decoded(result, NoError, "", 0 - 1)
    ELSE LET index == IndexByte(bytes[i]) IN
         IF index = 0 - 1
         THEN Decoded(Int64Of(0), NewValidationError("decode_error"),
                      ByteToString(bytes[i]), Len(bytes) - i)
         ELSE DecodeLoop(bytes, i - 1, Add64(result, MulSmall64(power, index)),
                         MulSmall64(power, base62Base))

\* a decoder that weighs the first byte least
DecodeToNumberFirstLeast(bytes) ==
    DecodeLoop(Reverse(bytes), Len(bytes), Int64Of(0), Int64Of(1))

\* DecodeToNumber(encoded), encoded given as its bytes
DecodeToNumber(bytes) == DecodeLoop(bytes, Len(bytes), Int64Of(0), Int64Of(1))

----------------------------------------------------------------------------
(* Pagination of ListURLs: url_service.go 172-209 *)

\* defaults without the cap of options.Limit
NormalizeOptionsUncapped(options) ==
    [options EXCEPT
        !.Page = IF @ <= 0 THEN 1 ELSE @,
        !.Limit = IF @ <= 0 THEN 20 ELSE @]

\* lines 174-182: the defaults and the cap of options.Page and options.Limit
NormalizeOptions(options) ==
    [options EXCEPT
        !.Page = IF @ <= 0 THEN 1 ELSE @,
        !.Limit = IF @ <= 0 THEN 20 ELSE IF @ > 100 THEN 100 ELSE @]

\* a page count rounded down
TotalPagesRoundedDown(totalCount, limit) ==
    IF totalCount \div limit = 0 THEN 1 ELSE totalCount \div limit

\* lines 197-200: totalPages
TotalPages(totalCount, limit) ==
    IF (totalCount + limit - 1) \div limit = 0
    THEN 1
    ELSE (totalCount + limit - 1) \div limit

\* lines 202-209: domain.PaginationMeta for normalised options
PaginationMeta(options, totalCount) ==
    [ CurrentPage |-> options.Page,
      PerPage |-> options.Limit,
      TotalPages |-> TotalPages(totalCount, options.Limit),
      TotalCount |-> totalCount,
      HasNext |-> options.Page < TotalPages(totalCount, options.Limit),
      HasPrev |-> options.Page > 1 ]

----------------------------------------------------------------------------
(* Inputs of the service calls *)

\* rounds of the random-identifier loop of CreateShortURL
MaxAttempts == 10

OriginalURLs ==
    { "https://example.com/x", "http://example.org/y", "",
      "ftp://example.com/f", "https:///nohost", "example.com/x", "http://[::1" }

\* req.CustomID: nil is {}, a string s is {s}
CustomIDs ==
    { {}, {<<>>},
      {<<"g","o","-","1">>}, {<<"\f","g","o","-","1"," ">>},
      {<<"a","B","c","1","2","3">>},
      {<<"a","b">>}, {<<"A","d","m","i","n">>}, {<<"g","o","_","1">>} }

\* req.ExpiresAt: nil is {}
ExpiresAtInputs == { {}, {0} }

CreateURLRequests ==
    [ OriginalURL : OriginalURLs, CustomID : CustomIDs, ExpiresAt : ExpiresAtInputs ]

\* req of UpdateURL: a field that is not supplied (nil) is {}
UpdateURLRequests ==
    { [OriginalURL |-> {}, ExpiresAt |-> {}, IsActive |-> {}],
      [OriginalURL |-> {"http://example.org/y"}, ExpiresAt |-> {}, IsActive |-> {}],
      [OriginalURL |-> {"ftp://example.com/f"}, ExpiresAt |-> {}, IsActive |-> {FALSE}],
      [OriginalURL |-> {}, ExpiresAt |-> {0}, IsActive |-> {}],
      [OriginalURL |-> {}, ExpiresAt |-> {}, IsActive |-> {FALSE}],
      [OriginalURL |-> {}, ExpiresAt |-> {}, IsActive |-> {TRUE}] }

\* options of ListURLs: a page or limit that is 0 takes its default
ListOptions ==
    [ Page : {0, 1, 2}, Limit : {0, 1, 2}, IsActive : { {}, {TRUE}, {FALSE} } ]

\* identifiers that callers look up, update and delete
LookupIDs ==
    { <<"g","o","-","1">>, Generate(defaultIDLength, <<10, 37, 12, 1, 2, 3>>) }

----------------------------------------------------------------------------
(* State *)

VARIABLES
    urls,         \* the rows of table urls
    cache,        \* the values cached under url:<id>
    now,          \* the clock
    proc,         \* per request goroutine: position and locals
    bg,           \* per request goroutine: the goroutine its last redirect started
    cacheFaults,  \* failed cache calls and timed-out entries so far
    sequential,   \* whether the callers issue their calls one after the other
    pure,         \* the last function applied on its own: name, input, output
    redirects,    \* successful GetURLForRedirect calls so far
    ops,          \* service calls issued so far
    lastDone,     \* the call that returned last
    assigned,     \* identifiers ever inserted into the table
    rl,           \* the RateLimiter: its map requests and its mutex
    rlCall,       \* per goroutine that uses the limiter: position and locals
    rlGhost       \* every request allowed so far, requests as it would be
                  \* had cleanup never run, and the keys cleanup has removed

\* the variables of the rate limiter
limiterVars == << rl, rlCall, rlGhost >>

vars == << urls, cache, now, proc, bg, cacheFaults, sequential, pure, redirects, ops, lastDone,
          assigned, limiterVars >>

\* the request of CreateShortURL between its steps
NoRequest == [OriginalURL |-> "", ExpiresAt |-> {}, apiKey |-> ""]

\* the options, the page and the pagination of a call that is not ListURLs
NoOptions == [Page |-> 0, Limit |-> 0, IsActive |-> {}]
NoMeta ==
    [ CurrentPage |-> 0, PerPage |-> 0, TotalPages |-> 0, TotalCount |-> 0,
      HasNext |-> FALSE, HasPrev |-> FALSE ]

IdleProc ==
    [ pc |-> "idle", op |-> "none", id |-> <<>>, req |-> NoRequest, url |-> NoURL,
      err |-> NoResult, attempts |-> 0, redirect |-> FALSE,
      taken |-> FALSE, cacheErr |-> FALSE, patch |-> {},
      options |-> NoOptions, listed |-> {}, meta |-> NoMeta,
      cancelled |-> FALSE, query |-> {}, size |-> 0, drawn |-> <<>> ]

\* cancelled: the context of the request that started the goroutine is done
NoGoroutine == [pc |-> "none", id |-> <<>>, clicks |-> 0, at |-> 0, cancelled |-> FALSE]

\* no function has been applied on its own
NoApplication == [fn |-> "none"]

\* what a sequential caller remembers of the call that returned last: the
\* call, its error code and, of a call that wrote the table, what it wrote
Remembered(op, id, err, url, cacheErr) ==
    LET wrote == op \in {"CreateShortURL", "UpdateURL", "DeleteURL"} /\ err.Code = "ok" IN
    [ op |-> op, id |-> id, Code |-> err.Code,
      OriginalURL |-> IF wrote THEN url.OriginalURL ELSE "",
      ExpiresAt |-> IF wrote THEN url.ExpiresAt ELSE {},
      IsActive |-> IF wrote THEN url.IsActive ELSE FALSE,
      cacheErr |-> cacheErr ]

NoCall == Remembered("none", <<>>, NoResult, NoURL, FALSE)

\* outcomes of one call to the cache: TRUE is success
CacheOutcomes == IF cacheFaults < MaxCacheFaults THEN BOOLEAN ELSE {TRUE}

\* cacheFaults after a call to the cache with outcome ok
Counted(ok) == IF ok THEN cacheFaults ELSE cacheFaults + 1

\* outcomes of a call to the cache with the context of the call of p: a
\* context that is done makes the client return its error at once
CacheOutcomesOf(p) == IF proc[p].cancelled THEN {FALSE} ELSE CacheOutcomes

\* cacheFaults after that call: a failure by cancellation is no fault of the cache
CountedOf(p, ok) == IF proc[p].cancelled THEN cacheFaults ELSE Counted(ok)

\* no call is running and no goroutine of a redirect is left
Quiet == \A q \in Procs : proc[q].pc = "idle" /\ bg[q].pc = "none"

\* the one row of id (the zero URL if there is none)
RowOf(rows, id) ==
    IF RowsByID(rows, id) = {} THEN NoURL ELSE CHOOSE r \in RowsByID(rows, id) : TRUE

----------------------------------------------------------------------------
(* The size of the QR code: domain/url.go 596-601, URLHandler.GetQRCode *)

DecimalDigits == << "0", "1", "2", "3", "4", "5", "6", "7", "8", "9" >>

\* the value of a decimal digit
DigitValue(c) == (CHOOSE j \in 1..10 : DecimalDigits[j] = c) - 1

\* the value of the c-th group of four digits from the right of a string of
\* decimal digits; a digit beyond its length is 0
DigitGroup(digits, c) ==
    LET DigitAt(k) ==
            IF k <= Len(digits) THEN DigitValue(digits[Len(digits) + 1 - k]) ELSE 0
    IN DigitAt(4 * c - 3) + 10 * DigitAt(4 * c - 2)
        + 100 * DigitAt(4 * c - 1) + 1000 * DigitAt(4 * c)

\* the int64 a string of at most 20 decimal digits spells, wrapping at 64
\* bits: the sum n*10 + digit of the loop, taken four digits at a time
DigitsValue(digits) ==
    LET Shift(v, c) == Add64(MulSmall64(v, 10000), Int64Of(DigitGroup(digits, c))) IN
    Shift(Shift(Shift(Shift(Int64Of(DigitGroup(digits, 5)), 4), 3), 2), 1)

\* 0 - x
Neg64(x) ==
    Add64(<< LimbBase - 1 - x[1], LimbBase - 1 - x[2],
             LimbBase - 1 - x[3], LimbBase - 1 - x[4] >>, Int64Of(1))

\* x < y for two int64
Less64(x, y) ==
    IF IsNegative64(x) # IsNegative64(y) THEN IsNegative64(x)
    ELSE \E k \in 1..4 : /\ x[k] < y[k]
                         /\ \A j \in (k + 1)..4 : x[j] = y[j]

\* a string of decimal digits without its leading zeros
RECURSIVE StripZeros(_)
StripZeros(digits) ==
    IF digits # << >> /\ Head(digits) = "0" THEN StripZeros(Tail(digits)) ELSE digits

\* a < b for two strings of decimal digits of one length
RECURSIVE DigitsLess(_, _)
DigitsLess(a, b) ==
    IF a = << >> THEN FALSE
    ELSE IF Head(a) # Head(b) THEN DigitValue(Head(a)) < DigitValue(Head(b))
    ELSE DigitsLess(Tail(a), Tail(b))

\* 1<<63, the first magnitude an int64 cannot hold unless it is negated
Int64Cutoff == << "9", "2", "2", "3", "3", "7", "2", "0", "3", "6",
             "8", "5", "4", "7", "7", "5", "8", "0", "8" >>

\* the decimal digits a string starts with
RECURSIVE DigitsPrefix(_)
DigitsPrefix(str) ==
    IF str # << >> /\ \E j \in 1..10 : DecimalDigits[j] = Head(str)
    THEN << Head(str) >> \o DigitsPrefix(Tail(str))
    ELSE << >>

\* strconv.Atoi as line 598 calls it: an optional sign and at least one
\* decimal digit. The digits are read from the left: once they make a number
\* that no uint64 holds the result is a range error, whatever follows; before
\* that, a character that is no digit is a syntax error, returned with 0; a
\* number that an int64 cannot hold is a range error. A range error comes
\* with the nearest int64
Atoi(str) ==
    LET signed == str # << >> /\ str[1] \in {"+", "-"}
        neg == signed /\ str[1] = "-"
        rest == IF signed THEN Tail(str) ELSE str
        magnitude == StripZeros(DigitsPrefix(rest))
        AtLeast(cutoff) ==
            \/ Len(magnitude) > Len(cutoff)
            \/ Len(magnitude) = Len(cutoff) /\ ~ DigitsLess(magnitude, cutoff)
        overflows == AtLeast(<< "1", "8", "4", "4", "6", "7", "4", "4", "0", "7",
                                "3", "7", "0", "9", "5", "5", "1", "6", "1", "6" >>)
        clamped == [ok |-> FALSE, value |-> IF neg THEN MinInt64 ELSE MaxInt64]
    IN
    IF overflows THEN clamped
    ELSE IF rest = << >> \/ DigitsPrefix(rest) # rest
         THEN [ok |-> FALSE, value |-> Int64Of(0)]
    ELSE IF ~ neg /\ AtLeast(Int64Cutoff) THEN clamped
    ELSE IF neg /\ AtLeast(Int64Cutoff) /\ magnitude # Int64Cutoff THEN clamped
    ELSE [ok |-> TRUE,
          value |-> IF neg THEN Neg64(DigitsValue(magnitude)) ELSE DigitsValue(magnitude)]

\* c.DefaultQuery("size", "200"): query holds the parameter if the request
\* has one
DefaultQuery(query, defaultValue) ==
    IF query = {} THEN defaultValue ELSE CHOOSE v \in query : TRUE

\* a GetQRCode that moves a size outside [50,1000] to the nearer end
QRCodeSizeClamped(query) ==
    LET parsed == Atoi(DefaultQuery(query, << "2", "0", "0" >>)) IN
    IF ~ parsed.ok THEN 200
    ELSE IF Less64(parsed.value, Int64Of(50)) THEN 50
    ELSE IF Less64(Int64Of(1000), parsed.value) THEN 1000
    ELSE parsed.value[1]

\* lines 597-601: the size GetQRCode puts into the address of the image
QRCodeSize(query) ==
    LET size == DefaultQuery(query, << "2", "0", "0" >>)
        parsed == Atoi(size)
    IN
    IF ~ parsed.ok \/ Less64(parsed.value, Int64Of(50))
                   \/ Less64(Int64Of(1000), parsed.value)
    THEN 200
    ELSE parsed.value[1]

----------------------------------------------------------------------------
(* The routes main registers: unnamed/part_000 385-403 *)

\* a registered route: method, path pattern by segments (":id" is the
\* parameter, "*any" takes the rest), whether APIKeyAuth runs first, handler
RouteOf(method, pattern, auth, handler) ==
    [method |-> method, pattern |-> pattern, auth |-> auth, handler |-> handler]

\* lines 386-403: every route main registers, in the order of the source
routes ==
    { RouteOf("GET", << "health" >>, FALSE, "healthCheck"),
      RouteOf("POST", << "api", "v1", "urls" >>, TRUE, "CreateShortURL"),
      RouteOf("GET", << "api", "v1", "urls", ":id" >>, TRUE, "GetURLInfo"),
      RouteOf("GET", << "api", "v1", "urls" >>, TRUE, "ListURLs"),
      RouteOf("DELETE", << "api", "v1", "urls", ":id" >>, TRUE, "DeleteURL"),
      RouteOf("GET", << "api", "v1", "urls", ":id", "qr" >>, FALSE, "GetQRCode"),
      RouteOf("GET", << "api", "v1", "urls", ":id", "analytics" >>, TRUE, "GetAnalytics"),
      RouteOf("GET", << "swagger", "*any" >>, FALSE, "swagger"),
      RouteOf("GET", << ":id" >>, FALSE, "RedirectURL") }

\* how many segments of path the pattern matches literally, or -1 if the
\* pattern does not match the path
RouteMatch(pattern, path) ==
    IF pattern[Len(pattern)] = "*any"
    THEN IF Len(path) >= Len(pattern) - 1
            /\ \A k \in 1..(Len(pattern) - 1) : pattern[k] = path[k]
         THEN Len(pattern) - 1 ELSE 0 - 1
    ELSE IF Len(path) = Len(pattern)
            /\ \A k \in 1..Len(pattern) : pattern[k] = ":id" \/ pattern[k] = path[k]
         THEN Cardinality({ k \in 1..Len(pattern) : pattern[k] = path[k] })
         ELSE 0 - 1

\* the handler the router of table serves a request with: of the routes of
\* the method that match, the one with the most literal segments; with no
\* such route the answer is 404 from the router itself
ServeHTTP(table, method, path) ==
    LET matching == { r \in table : r.method = method /\ RouteMatch(r.pattern, path) >= 0 }
    IN
    IF matching = {} THEN "404"
    ELSE (CHOOSE r \in matching :
            \A o \in matching : RouteMatch(r.pattern, path) >= RouteMatch(o.pattern, path)).handler

----------------------------------------------------------------------------
(* The rate limiter: middleware/logging.go 102-228 *)

\* the fields limit and window of the limiter: requests allowed per window,
\* and the length of the window in ticks of the clock
rlLimit == 2
rlWindow == 2

\* the clock of the runs of the limiter stops here
MaxLimiterTime == 4

\* the goroutines of requests that pass the middleware, and the goroutine
\* NewRateLimiter starts
Handlers == {"h1", "h2"}
Cleaner == "cleanup"

\* the X-API-Key header ("" is no header) and the address of a request
APIKeyHeaders == {"", "key-1"}
ClientIPs == {"10.0.0.1"}

\* lines 217-228: api:<key> if the header is there, else ip:<address>
getClientID(apiKey, clientIP) ==
    IF apiKey # "" THEN << "api", apiKey >> ELSE << "ip", clientIP >>

ClientIDs == { getClientID(a, i) : a \in APIKeyHeaders, i \in ClientIPs }

\* time.Time.After
After(t, u) == t > u

\* requests[key] of the Go map: the empty slice for a key that is not there
Recorded(requests, key) == IF key \in DOMAIN requests THEN requests[key] ELSE << >>

\* requests[key] = v
Put(requests, key, v) ==
    [k \in DOMAIN requests \cup {key} |-> IF k = key THEN v ELSE requests[k]]

\* lines 136-143: the recorded requests of key after the cutoff t - rlWindow
validRequests(requests, key, t) ==
    LET cutoff == t - rlWindow IN
    SelectSeq(Recorded(requests, key), LAMBDA requestTime : After(requestTime, cutoff))

\* a limiter that lets one request more than limit through
AllowedOneMore(requests, key, t) == ~ (Len(validRequests(requests, key, t)) > rlLimit)

\* lines 146-149 and 155: what Allow returns at instant t
Allowed(requests, key, t) == ~ (Len(validRequests(requests, key, t)) >= rlLimit)

\* a limiter that records the requests it denies as well
RecordedAfterAllowAll(requests, key, t) ==
    Put(requests, key, Append(validRequests(requests, key, t), t))

\* lines 147 and 152-153: the map after Allow(key) at instant t
RecordedAfterAllow(requests, key, t) ==
    Put(requests, key,
        IF Allowed(requests, key, t)
        THEN Append(validRequests(requests, key, t), t)
        ELSE validRequests(requests, key, t))

\* a cleanup that keeps nothing recorded up to the instant it runs
cleanupAll(requests, t) ==
    LET kept(k) == SelectSeq(requests[k], LAMBDA requestTime : After(requestTime, t)) IN
    [k \in { k \in DOMAIN requests : Len(kept(k)) # 0 } |-> kept(k)]

\* lines 167-182: the map after one round of cleanup at instant t
cleanup(requests, t) ==
    LET cutoff == t - rlWindow * 2
        validOf(k) == SelectSeq(requests[k], LAMBDA requestTime : After(requestTime, cutoff))
    IN
    [k \in { k \in DOMAIN requests : Len(validOf(k)) # 0 } |-> validOf(k)]

\* lines 109-121: the limiter NewRateLimiter returns, its mutex free
NewRateLimiter == [requests |-> << >>, mutex |-> ""]

\* a goroutine that is not inside Allow or cleanup
NoLimiterCall == [pc |-> "idle", key |-> << >>, ok |-> FALSE]

\* nothing allowed yet
NoHistory ==
    [ allowed |-> [k \in ClientIDs |-> << >>], uncleaned |-> << >>, agrees |-> TRUE,
      evicted |-> {} ]

LimiterInit ==
    /\ rl = NewRateLimiter
    /\ rlCall = [g \in Handlers \cup {Cleaner} |-> NoLimiterCall]
    /\ rlGhost = NoHistory

Init ==
    /\ urls = {}
    /\ cache = {}
    /\ now = 0
    /\ proc = [p \in Procs |-> IdleProc]
    /\ bg = [p \in Procs |-> NoGoroutine]
    /\ cacheFaults = 0
    /\ sequential = FALSE
    /\ pure = NoApplication
    /\ redirects = 0
    /\ LimiterInit
    /\ ops = 0
    /\ lastDone = NoCall
    /\ assigned = {}

\* a call of p ends with error e (or nil) and value u
Finish(p, e, u) ==
    [proc[p] EXCEPT !.pc = "done", !.err = e, !.url = u, !.req = NoRequest]

CanCall(p) ==
    /\ proc[p].pc = "idle"
    /\ ops < MaxOps
    /\ sequential => Quiet

----------------------------------------------------------------------------
(* CreateShortURL: url_service.go 32-106 *)

\* lines 61-81 and 84: one round of the random-identifier loop, entered
\* with `done` failed rounds behind it, for the request `keep`; drawn is
\* generatedID of the round
GenerateRound(p, call, keep, done) ==
    \E draws \in RandomDraws :
        LET generatedID == Generate(NewIDGenerator(6), draws) IN
        IF ~ ExistsByID(urls, generatedID)
        THEN proc' = [proc EXCEPT ![p] =
                [call EXCEPT !.pc = "cr_insert", !.id = generatedID, !.req = NoRequest,
                     !.drawn = generatedID,
                     !.attempts = done, !.taken = generatedID \in assigned,
                     !.url = NewURL(generatedID, keep.OriginalURL,
                                    keep.ExpiresAt, keep.apiKey)]]
        ELSE IF done + 1 < MaxAttempts
        THEN proc' = [proc EXCEPT ![p] =
                [call EXCEPT !.pc = "cr_generate", !.req = keep, !.attempts = done + 1,
                     !.drawn = generatedID]]
        ELSE proc' = [proc EXCEPT ![p] =
                [call EXCEPT !.pc = "done", !.req = NoRequest, !.attempts = done + 1,
                     !.drawn = generatedID,
                     !.err = NewInternalError("Failed to generate unique ID after multiple attempts")]]

\* custom identifiers a request may add to the table
Wanted(req) ==
    IF ~ ValidateOriginalURL(req.OriginalURL)
    THEN {}
    ELSE IF req.CustomID # {} /\ req.CustomID # {<<>>}
    THEN { TrimSpace(c) : c \in { c \in req.CustomID : ValidateCustomID(TrimSpace(c)) } }
    ELSE {}

\* callers ask for a new custom identifier only while the table holds fewer
\* than MaxRows rows; a request that is refused, that meets an identifier of
\* the table, or that leaves the choice of the identifier to the service, is
\* made at any time
HasRoom(req) ==
    \/ Cardinality(urls) < MaxRows
    \/ \A id \in Wanted(req) : ExistsByID(urls, id)

\* lines 34-58 and 84: the validation and the uniqueness check of a custom
\* identifier, or (lines 61-76) the first round of the random-identifier loop
CreateShortURL_Begin(p) ==
    /\ CanCall(p)
    /\ \E req \in { r \in CreateURLRequests : HasRoom(r) } :
        LET apiKey == APIKeyOf[p]
            call == [IdleProc EXCEPT !.op = "CreateShortURL"]
            keep == [OriginalURL |-> req.OriginalURL, ExpiresAt |-> req.ExpiresAt,
                     apiKey |-> apiKey]
        IN
        IF ~ ValidateOriginalURL(req.OriginalURL)
        THEN proc' = [proc EXCEPT ![p] =
                [call EXCEPT !.pc = "done", !.err = NewValidationError("original_url")]]
        ELSE IF req.CustomID # {} /\ req.CustomID # {<<>>}
        THEN LET customID == TrimSpace(CHOOSE c \in req.CustomID : TRUE) IN
             IF ~ ValidateCustomID(customID)
             THEN proc' = [proc EXCEPT ![p] =
                     [call EXCEPT !.pc = "done", !.err = NewValidationError("custom_id")]]
             ELSE IF ExistsByID(urls, customID)
             THEN proc' = [proc EXCEPT ![p] =
                     [call EXCEPT !.pc = "done", !.id = customID,
                          !.taken = customID \in assigned,
                          !.err = NewConflictError("Custom ID")]]
             ELSE proc' = [proc EXCEPT ![p] =
                     [call EXCEPT !.pc = "cr_insert", !.id = customID,
                          !.taken = customID \in assigned,
                          !.url = NewURL(customID, req.OriginalURL, req.ExpiresAt, apiKey)]]
        ELSE GenerateRound(p, call, keep, 0)
    /\ ops' = ops + 1
    /\ UNCHANGED << urls, cache, now, bg, cacheFaults, sequential, pure, redirects, limiterVars, lastDone, assigned >>

\* lines 61-81 and 84: a later round of the random-identifier loop; with the
\* context done the candidate is drawn (line 62) and ExistsByID fails (67-70)
CreateShortURL_Generate(p) ==
    /\ proc[p].pc = "cr_generate"
    /\ proc[p].attempts < MaxAttempts
    /\ IF proc[p].cancelled
       THEN \E draws \in RandomDraws :
               LET generatedID == Generate(NewIDGenerator(6), draws) IN
               proc' = [proc EXCEPT ![p] =
                   [Finish(p, NewInternalError("Failed to check ID availability"), NoURL)
                       EXCEPT !.drawn = generatedID]]
       ELSE GenerateRound(p, proc[p], proc[p].req, proc[p].attempts)
    /\ UNCHANGED << urls, cache, now, bg, cacheFaults, sequential, pure, redirects, limiterVars, ops, lastDone, assigned >>

\* lines 91-97: urlRepo.Create; it fails when the context is done. The loop
\* is left: attempts and generatedID no longer exist
CreateShortURL_Insert(p) ==
    /\ proc[p].pc = "cr_insert"
    /\ LET left == [proc[p] EXCEPT !.attempts = 0, !.drawn = <<>>] IN
       IF proc[p].cancelled
       THEN /\ proc' = [proc EXCEPT ![p] =
                   [left EXCEPT !.pc = "done", !.url = NoURL, !.req = NoRequest,
                                !.err = NewInternalError("Failed to save URL")]]
            /\ UNCHANGED << urls, assigned >>
       ELSE IF DuplicateKey(urls, proc[p].url)
       THEN /\ proc' = [proc EXCEPT ![p] =
                   [left EXCEPT !.pc = "done", !.url = NoURL, !.req = NoRequest,
                                !.err = NewConflictError("URL ID")]]
            /\ UNCHANGED << urls, assigned >>
       ELSE /\ urls' = StoreCreate(urls, proc[p].url)
            /\ assigned' = assigned \cup {proc[p].id}
            /\ proc' = [proc EXCEPT ![p] = [left EXCEPT !.pc = "cr_cache"]]
    /\ UNCHANGED << cache, now, bg, cacheFaults, sequential, pure, redirects, limiterVars, ops, lastDone >>

\* a CreateShortURL that reports the failure of cacheRepo.SetURL to its caller
CreateShortURL_CacheStrict(p) ==
    /\ proc[p].pc = "cr_cache"
    /\ \E ok \in CacheOutcomes :
        /\ cache' = IF ok THEN CacheSetURL(cache, proc[p].url) ELSE cache
        /\ cacheFaults' = Counted(ok)
        /\ proc' = [proc EXCEPT ![p] =
                IF ok THEN Finish(p, NoError, proc[p].url)
                ELSE [Finish(p, NewInternalError("Failed to cache URL"), NoURL)
                         EXCEPT !.cacheErr = TRUE]]
    /\ UNCHANGED << urls, now, bg, sequential, pure, redirects, limiterVars, ops, lastDone, assigned >>

\* lines 100-105: cacheRepo.SetURL, its failure swallowed
CreateShortURL_Cache(p) ==
    /\ proc[p].pc = "cr_cache"
    /\ \E ok \in CacheOutcomesOf(p) :
        /\ cache' = IF ok THEN CacheSetURL(cache, proc[p].url) ELSE cache
        /\ cacheFaults' = CountedOf(p, ok)
        /\ proc' = [proc EXCEPT ![p] =
                [Finish(p, NoError, proc[p].url) EXCEPT !.cacheErr = ~ ok]]
    /\ UNCHANGED << urls, now, bg, sequential, pure, redirects, limiterVars, ops, lastDone, assigned >>

----------------------------------------------------------------------------
(* GetURL and GetURLForRedirect: url_service.go 109-169 *)

\* a redirect that starts no goroutine while one of the caller still runs
SpawnUnlessBusy(p, id) ==
    IF \E q \in Procs : bg[q].pc # "none"
    THEN bg
    ELSE [bg EXCEPT ![p] = [pc |-> "increment", id |-> id,
                            clicks |-> RowOf(urls, id).ClickCount, at |-> now,
                            cancelled |-> proc[p].cancelled]]

\* lines 156-166: the goroutine GetURLForRedirect starts before it returns
Spawn(p, id) ==
    [bg EXCEPT ![p] = [pc |-> "increment", id |-> id,
                       clicks |-> RowOf(urls, id).ClickCount, at |-> now,
                       cancelled |-> proc[p].cancelled]]

\* what ends a successful GetURL of p: a redirect also starts its goroutine
Deliver(p, u) ==
    /\ proc' = [proc EXCEPT ![p] = Finish(p, NoError, u)]
    /\ bg' = IF proc[p].redirect THEN Spawn(p, proc[p].id) ELSE bg
    /\ redirects' = IF proc[p].redirect THEN redirects + 1 ELSE redirects

\* lines 111-116: cacheRepo.GetURL; redirect is TRUE for GetURLForRedirect,
\* which runs one goroutine per request slot at a time
GetURL_Begin(p) ==
    /\ CanCall(p)
    /\ \E id \in LookupIDs, redirect \in BOOLEAN, ok \in CacheOutcomes :
        /\ redirect => bg[p].pc = "none"
        /\ cacheFaults' = Counted(ok)
        /\ LET call == [IdleProc EXCEPT !.op = IF redirect THEN "GetURLForRedirect"
                                                            ELSE "GetURL",
                                        !.id = id, !.redirect = redirect]
           IN
           IF ok /\ CacheGetURL(cache, id) # {}
           THEN /\ proc' = [proc EXCEPT ![p] =
                       [call EXCEPT !.pc = "done", !.err = NoError,
                            !.url = CHOOSE e \in CacheGetURL(cache, id) : TRUE]]
                /\ bg' = IF redirect THEN Spawn(p, id) ELSE bg
                /\ redirects' = IF redirect THEN redirects + 1 ELSE redirects
           ELSE /\ proc' = [proc EXCEPT ![p] = [call EXCEPT !.pc = "gu_store"]]
                /\ bg' = bg
                /\ redirects' = redirects
    /\ ops' = ops + 1
    /\ UNCHANGED << urls, cache, now, sequential, pure, limiterVars, lastDone, assigned >>

\* lines 119-134: urlRepo.GetByID and the accessibility check
GetURL_Store(p) ==
    /\ proc[p].pc = "gu_store"
    /\ IF proc[p].cancelled
       THEN proc' = [proc EXCEPT ![p] =
               Finish(p, NewInternalError("Failed to retrieve URL"), NoURL)]
       ELSE IF GetByID(urls, proc[p].id) = {}
       THEN proc' = [proc EXCEPT ![p] = Finish(p, NewNotFoundError("Short URL"), NoURL)]
       ELSE LET url == CHOOSE r \in GetByID(urls, proc[p].id) : TRUE IN
            IF ~ IsAccessible(url, now)
            THEN IF IsExpired(url, now)
                 THEN proc' = [proc EXCEPT ![p] =
                         Finish(p, NewExpiredError("Short URL"), NoURL)]
                 ELSE proc' = [proc EXCEPT ![p] =
                         Finish(p, NewNotFoundError("Short URL"), NoURL)]
            ELSE proc' = [proc EXCEPT ![p] = [proc[p] EXCEPT !.pc = "gu_set", !.url = url]]
    /\ UNCHANGED << urls, cache, now, bg, cacheFaults, sequential, pure, redirects, limiterVars, ops, lastDone, assigned >>

\* lines 141-145: cacheRepo.SetURL, its failure swallowed
GetURL_Set(p) ==
    /\ proc[p].pc = "gu_set"
    /\ \E ok \in CacheOutcomesOf(p) :
        /\ cache' = IF ok THEN CacheSetURL(cache, proc[p].url) ELSE cache
        /\ cacheFaults' = CountedOf(p, ok)
    /\ Deliver(p, proc[p].url)
    /\ UNCHANGED << urls, now, sequential, pure, limiterVars, ops, lastDone, assigned >>

----------------------------------------------------------------------------
(* URLHandler.GetQRCode: domain/url.go 586-617 *)

\* the size parameters of GET /urls/{id}/qr: none, numbers around both ends
\* of the range, numbers around both ends of int64, strings that are no
\* number, and numbers too large for an int followed by other characters
QRSizeInputs ==
    { {} } \cup
    { {v} : v \in { << >>, << "0" >>, << "4", "9" >>, << "5", "0" >>, << "5", "1" >>,
                    << "2", "0", "0" >>, << "3", "0", "0" >>, << "0", "7", "5" >>,
                    << "9", "9", "9" >>, << "1", "0", "0", "0" >>,
                    << "1", "0", "0", "1" >>, << "5", "0", "0", "0" >>,
                    << "-", "5" >>, << "+", "6", "0" >>, << "-" >>,
                    << "a", "b", "c" >>, << "6", "0", "p", "x" >>, << " ", "6", "0" >>,
                    << "6", "0", ".", "5" >>,
                    SubSeq(Int64Cutoff, 1, 18) \o << "7" >>, Int64Cutoff,
                    << "-" >> \o Int64Cutoff,
                    << "-" >> \o SubSeq(Int64Cutoff, 1, 18) \o << "9" >>,
                    << "0", "0" >> \o SubSeq(Int64Cutoff, 1, 17) \o << "0", "0" >>,
                    [k \in 1..20 |-> "9"], [k \in 1..19 |-> "0"] \o << "6", "0" >>,
                    [k \in 1..20 |-> "9"] \o << "x" >>,
                    Int64Cutoff \o << "x" >>,
                    << "-" >> \o [k \in 1..25 |-> "9"] \o << " " >>,
                    << "x" >> \o [k \in 1..20 |-> "9"] } }

\* lines 587-603: the identifier of the path is checked, the size is read,
\* then URLService.GetURL starts with the cache; query and size are the
\* parameter of the request and sizeInt
GetQRCode_Begin(p) ==
    /\ CanCall(p)
    /\ \E id \in LookupIDs \cup { << >> }, query \in QRSizeInputs, ok \in CacheOutcomes :
        LET call == [IdleProc EXCEPT !.op = "GetQRCode", !.id = id, !.query = query]
            sized == [call EXCEPT !.size = QRCodeSize(query)]
        IN
        IF id = << >>
        THEN /\ proc' = [proc EXCEPT ![p] =
                    [call EXCEPT !.pc = "done", !.err = NewValidationError("id")]]
             /\ cacheFaults' = cacheFaults
        ELSE /\ cacheFaults' = Counted(ok)
             /\ IF ok /\ CacheGetURL(cache, id) # {}
                THEN proc' = [proc EXCEPT ![p] =
                        [sized EXCEPT !.pc = "done", !.err = NoError,
                             !.url = CHOOSE e \in CacheGetURL(cache, id) : TRUE]]
                ELSE proc' = [proc EXCEPT ![p] = [sized EXCEPT !.pc = "gu_store"]]
    /\ ops' = ops + 1
    /\ UNCHANGED << urls, cache, now, bg, sequential, pure, redirects, limiterVars, lastDone, assigned >>

\* lines 589-592 and 604-616: what the handler answers once its call is
\* done: the status of the error, or the redirect to the image of sizeInt
GetQRCode_Response(p) ==
    IF proc[p].err = NoError
    THEN [ status |-> 301, size |-> { proc[p].size } ]
    ELSE [ status |-> handleError(proc[p].err), size |-> {} ]

\* a goroutine that ends when IncrementClickCount fails
Redirect_IncrementOrStop(p) ==
    /\ bg[p].pc = "increment"
    /\ urls' = IncrementClickCount(urls, bg[p].id, now)
    /\ bg' = IF ClickTargets(urls, bg[p].id) = {}
             THEN [bg EXCEPT ![p] = NoGoroutine]
             ELSE [bg EXCEPT ![p].pc = "invalidate"]
    /\ UNCHANGED << cache, now, proc, cacheFaults, sequential, pure, redirects, limiterVars, ops, lastDone, assigned >>

\* line 158: urlRepo.IncrementClickCount in the goroutine
Redirect_Increment(p) ==
    /\ bg[p].pc = "increment"
    /\ urls' = IncrementClickCount(urls, bg[p].id, now)
    /\ bg' = [bg EXCEPT ![p].pc = "invalidate"]
    /\ UNCHANGED << cache, now, proc, cacheFaults, sequential, pure, redirects, limiterVars, ops, lastDone, assigned >>

\* lines 163-166: cacheRepo.DeleteURL in the goroutine, which then ends
Redirect_Invalidate(p) ==
    /\ bg[p].pc = "invalidate"
    /\ \E ok \in CacheOutcomes :
        /\ cache' = IF ok THEN CacheDeleteURL(cache, bg[p].id) ELSE cache
        /\ cacheFaults' = Counted(ok)
    /\ bg' = [bg EXCEPT ![p] = NoGoroutine]
    /\ UNCHANGED << urls, now, proc, sequential, pure, redirects, limiterVars, ops, lastDone, assigned >>

----------------------------------------------------------------------------
(* UpdateURL: url_service.go 218-271 *)

\* lines 234-251: the supplied fields of req applied to url
ApplyUpdate(url, req) ==
    [url EXCEPT
        !.OriginalURL = IF req.OriginalURL # {}
                        THEN CHOOSE u \in req.OriginalURL : TRUE ELSE @,
        !.ExpiresAt = IF req.ExpiresAt # {} THEN req.ExpiresAt ELSE @,
        !.IsActive = IF req.IsActive # {}
                     THEN CHOOSE b \in req.IsActive : TRUE ELSE @]

\* the fields of the row that req supplies (those that are not nil)
Supplied(req) ==
    { f \in {"original_url", "expires_at", "is_active"} :
        \/ f = "original_url" /\ req.OriginalURL # {}
        \/ f = "expires_at" /\ req.ExpiresAt # {}
        \/ f = "is_active" /\ req.IsActive # {} }

\* lines 220-253: urlRepo.GetByID, the ownership check, the patch; patch
\* remembers which fields req supplied until the row is written
UpdateURL_Begin(p) ==
    /\ CanCall(p)
    /\ \E id \in LookupIDs, req \in UpdateURLRequests :
        LET apiKey == APIKeyOf[p]
            call == [IdleProc EXCEPT !.op = "UpdateURL", !.id = id]
        IN
        IF GetByID(urls, id) = {}
        THEN proc' = [proc EXCEPT ![p] =
                [call EXCEPT !.pc = "done", !.err = NewNotFoundError("Short URL")]]
        ELSE LET url == CHOOSE r \in GetByID(urls, id) : TRUE IN
             IF url.CreatedByAPIKey # apiKey
             THEN proc' = [proc EXCEPT ![p] =
                     [call EXCEPT !.pc = "done", !.err = NewUnauthorizedError("update")]]
             ELSE IF req.OriginalURL # {}
                     /\ ~ ValidateOriginalURL(CHOOSE u \in req.OriginalURL : TRUE)
             THEN proc' = [proc EXCEPT ![p] =
                     [call EXCEPT !.pc = "done", !.err = NewValidationError("original_url")]]
             ELSE proc' = [proc EXCEPT ![p] =
                     [call EXCEPT !.pc = "up_store", !.url = ApplyUpdate(url, req),
                          !.patch = Supplied(req)]]
    /\ ops' = ops + 1
    /\ UNCHANGED << urls, cache, now, bg, cacheFaults, sequential, pure, redirects, limiterVars, lastDone, assigned >>

\* lines 256-259: urlRepo.Update; no row affected, or a context that is
\* done, is an error
UpdateURL_Store(p) ==
    /\ proc[p].pc = "up_store"
    /\ IF proc[p].cancelled \/ RowsByID(urls, proc[p].id) = {}
       THEN /\ proc' = [proc EXCEPT ![p] =
                   [Finish(p, NewInternalError("Failed to update URL"), NoURL)
                       EXCEPT !.patch = {}]]
            /\ urls' = urls
       ELSE /\ urls' = StoreUpdate(urls, proc[p].url)
            /\ proc' = [proc EXCEPT ![p].pc = "up_invalidate", ![p].patch = {}]
    /\ UNCHANGED << cache, now, bg, cacheFaults, sequential, pure, redirects, limiterVars, ops, lastDone, assigned >>

\* lines 262-270: cacheRepo.DeleteURL, its failure swallowed
UpdateURL_Invalidate(p) ==
    /\ proc[p].pc = "up_invalidate"
    /\ \E ok \in CacheOutcomesOf(p) :
        /\ cache' = IF ok THEN CacheDeleteURL(cache, proc[p].id) ELSE cache
        /\ cacheFaults' = CountedOf(p, ok)
        /\ proc' = [proc EXCEPT ![p] =
                [Finish(p, NoError, proc[p].url) EXCEPT !.cacheErr = ~ ok]]
    /\ UNCHANGED << urls, now, bg, sequential, pure, redirects, limiterVars, ops, lastDone, assigned >>

----------------------------------------------------------------------------
(* DeleteURL: url_service.go 274-301 *)

\* a DeleteURL that deactivates the row before it checks the owner
DeleteURL_BeginDeleteFirst(p) ==
    /\ CanCall(p)
    /\ \E id \in LookupIDs :
        LET apiKey == APIKeyOf[p]
            call == [IdleProc EXCEPT !.op = "DeleteURL", !.id = id]
        IN
        IF GetByID(urls, id) = {}
        THEN /\ proc' = [proc EXCEPT ![p] =
                    [call EXCEPT !.pc = "done", !.err = NewNotFoundError("Short URL")]]
             /\ urls' = urls
        ELSE IF (CHOOSE r \in GetByID(urls, id) : TRUE).CreatedByAPIKey # apiKey
        THEN /\ proc' = [proc EXCEPT ![p] =
                    [call EXCEPT !.pc = "done", !.err = NewUnauthorizedError("delete")]]
             /\ urls' = StoreDelete(urls, id)
        ELSE /\ proc' = [proc EXCEPT ![p] = [call EXCEPT !.pc = "del_store"]]
             /\ urls' = urls
    /\ ops' = ops + 1
    /\ UNCHANGED << cache, now, bg, cacheFaults, sequential, pure, redirects, limiterVars, lastDone, assigned >>

\* lines 276-287: urlRepo.GetByID and the ownership check
DeleteURL_Begin(p) ==
    /\ CanCall(p)
    /\ \E id \in LookupIDs :
        LET apiKey == APIKeyOf[p]
            call == [IdleProc EXCEPT !.op = "DeleteURL", !.id = id]
        IN
        IF GetByID(urls, id) = {}
        THEN proc' = [proc EXCEPT ![p] =
                [call EXCEPT !.pc = "done", !.err = NewNotFoundError("Short URL")]]
        ELSE IF (CHOOSE r \in GetByID(urls, id) : TRUE).CreatedByAPIKey # apiKey
        THEN proc' = [proc EXCEPT ![p] =
                [call EXCEPT !.pc = "done", !.err = NewUnauthorizedError("delete")]]
        ELSE proc' = [proc EXCEPT ![p] = [call EXCEPT !.pc = "del_store"]]
    /\ ops' = ops + 1
    /\ UNCHANGED << urls, cache, now, bg, cacheFaults, sequential, pure, redirects, limiterVars, lastDone, assigned >>

\* lines 290-293: urlRepo.Delete; no row affected, or a context that is
\* done, is an error
DeleteURL_Store(p) ==
    /\ proc[p].pc = "del_store"
    /\ IF proc[p].cancelled \/ RowsByID(urls, proc[p].id) = {}
       THEN /\ proc' = [proc EXCEPT ![p] =
                   Finish(p, NewInternalError("Failed to delete URL"), NoURL)]
            /\ urls' = urls
       ELSE /\ urls' = StoreDelete(urls, proc[p].id)
            /\ proc' = [proc EXCEPT ![p].pc = "del_invalidate"]
    /\ UNCHANGED << cache, now, bg, cacheFaults, sequential, pure, redirects, limiterVars, ops, lastDone, assigned >>

\* lines 296-300: cacheRepo.DeleteURL, its failure swallowed
DeleteURL_Invalidate(p) ==
    /\ proc[p].pc = "del_invalidate"
    /\ \E ok \in CacheOutcomesOf(p) :
        /\ cache' = IF ok THEN CacheDeleteURL(cache, proc[p].id) ELSE cache
        /\ cacheFaults' = CountedOf(p, ok)
        /\ proc' = [proc EXCEPT ![p] =
                [Finish(p, NoError, NoURL) EXCEPT !.cacheErr = ~ ok]]
    /\ UNCHANGED << urls, now, bg, sequential, pure, redirects, limiterVars, ops, lastDone, assigned >>

----------------------------------------------------------------------------
(* GetURLStats: url_service.go 304-323 *)

\* urlRepo.GetByID and the ownership check; the row is the result
GetURLStats(p) ==
    /\ CanCall(p)
    /\ \E id \in LookupIDs :
        LET apiKey == APIKeyOf[p]
            call == [IdleProc EXCEPT !.op = "GetURLStats", !.id = id, !.pc = "done"]
        IN
        IF GetByID(urls, id) = {}
        THEN proc' = [proc EXCEPT ![p] =
                [call EXCEPT !.err = NewNotFoundError("Short URL")]]
        ELSE LET url == CHOOSE r \in GetByID(urls, id) : TRUE IN
             IF url.CreatedByAPIKey # apiKey
             THEN proc' = [proc EXCEPT ![p] =
                     [call EXCEPT !.err = NewUnauthorizedError("stats")]]
             ELSE proc' = [proc EXCEPT ![p] = [call EXCEPT !.err = NoError, !.url = url]]
    /\ ops' = ops + 1
    /\ UNCHANGED << urls, cache, now, bg, cacheFaults, sequential, pure, redirects, limiterVars, lastDone, assigned >>

----------------------------------------------------------------------------
(* ListURLs: url_service.go 172-215 *)

\* url_service.go 174-184 and url_repository.go 136-165: the defaults, then
\* the first statement of urlRepo.List, SELECT COUNT(*) of the rows of the
\* caller that pass the filter; meta.TotalCount holds totalCount until the
\* pagination is built
ListURLs_Count(p) ==
    /\ CanCall(p)
    /\ \E given \in ListOptions :
        LET apiKey == APIKeyOf[p]
            options == NormalizeOptions(given)
            totalCount == Cardinality(ListMatching(urls, apiKey, options.IsActive))
        IN
        proc' = [proc EXCEPT ![p] =
            [IdleProc EXCEPT !.op = "ListURLs", !.pc = "ls_page", !.options = given,
                             !.meta = [NoMeta EXCEPT !.TotalCount = totalCount]]]
    /\ ops' = ops + 1
    /\ UNCHANGED << urls, cache, now, bg, cacheFaults, sequential, pure, redirects, limiterVars, lastDone, assigned >>

\* url_repository.go 168-211 and url_service.go 185-214: the second
\* statement of urlRepo.List, the SELECT of the page, on the table as it is
\* by now, and the pagination from the count of the first; a context that is
\* done makes the statement fail
ListURLs_Page(p) ==
    /\ proc[p].pc = "ls_page"
    /\ LET apiKey == APIKeyOf[p]
           options == NormalizeOptions(proc[p].options)
           totalCount == proc[p].meta.TotalCount
       IN
       IF proc[p].cancelled
       THEN proc' = [proc EXCEPT ![p] =
               [Finish(p, NewInternalError("Failed to retrieve URL list"), NoURL)
                    EXCEPT !.meta = NoMeta]]
       ELSE \E page \in ListPages(urls, apiKey, options) :
               proc' = [proc EXCEPT ![p] =
                   [Finish(p, NoError, NoURL)
                        EXCEPT !.listed = page,
                               !.meta = PaginationMeta(options, totalCount)]]
    /\ UNCHANGED << urls, cache, now, bg, cacheFaults, sequential, pure, redirects, limiterVars, ops, lastDone, assigned >>

----------------------------------------------------------------------------
(* CleanupExpiredURLs: url_service.go 326-335 *)

\* urlRepo.DeleteExpiredURLs(ctx, time.Now()); attempts holds the returned count
CleanupExpiredURLs(p) ==
    /\ CanCall(p)
    /\ urls' = DeleteExpiredURLs(urls, now)
    /\ proc' = [proc EXCEPT ![p] =
            [IdleProc EXCEPT !.op = "CleanupExpiredURLs", !.pc = "done", !.err = NoError,
                             !.attempts = Cardinality(ExpiredRows(urls, now))]]
    /\ ops' = ops + 1
    /\ UNCHANGED << cache, now, bg, cacheFaults, sequential, pure, redirects, limiterVars, lastDone, assigned >>

----------------------------------------------------------------------------
(* Environment *)

\* the caller takes the result of its call; sequential callers remember it
Return(p) ==
    /\ proc[p].pc = "done"
    /\ lastDone' = IF sequential
                   THEN Remembered(proc[p].op, proc[p].id, proc[p].err,
                                   proc[p].url, proc[p].cacheErr)
                   ELSE lastDone
    /\ proc' = [proc EXCEPT ![p] = IdleProc]
    /\ UNCHANGED << urls, cache, now, bg, cacheFaults, sequential, pure, redirects, limiterVars, ops, assigned >>

\* time passes
Tick ==
    /\ now < MaxTime
    /\ now' = now + 1
    /\ UNCHANGED << urls, cache, proc, bg, cacheFaults, sequential, pure, redirects, limiterVars, ops, lastDone, assigned >>

\* the time to live of a cached value (5 minutes) elapses
CacheExpire ==
    /\ cacheFaults < MaxCacheFaults
    /\ \E e \in cache : cache' = cache \ {e}
    /\ cacheFaults' = cacheFaults + 1
    /\ UNCHANGED << urls, now, proc, bg, sequential, pure, redirects, limiterVars, ops, lastDone, assigned >>

Next ==
    \/ \E p \in Procs : CreateShortURL_Begin(p)
    \/ \E p \in Procs : CreateShortURL_Generate(p)
    \/ \E p \in Procs : CreateShortURL_Insert(p)
    \/ \E p \in Procs : CreateShortURL_Cache(p)
    \/ \E p \in Procs : GetURL_Begin(p)
    \/ \E p \in Procs : GetURL_Store(p)
    \/ \E p \in Procs : GetURL_Set(p)
    \/ \E p \in Procs : Redirect_Increment(p)
    \/ \E p \in Procs : Redirect_Invalidate(p)
    \/ \E p \in Procs : UpdateURL_Begin(p)
    \/ \E p \in Procs : UpdateURL_Store(p)
    \/ \E p \in Procs : UpdateURL_Invalidate(p)
    \/ \E p \in Procs : DeleteURL_Begin(p)
    \/ \E p \in Procs : DeleteURL_Store(p)
    \/ \E p \in Procs : DeleteURL_Invalidate(p)
    \/ \E p \in Procs : GetURLStats(p)
    \/ \E p \in Procs : CleanupExpiredURLs(p)
    \/ \E p \in Procs : Return(p)
    \/ Tick
    \/ CacheExpire

Spec == Init /\ [][Next]_vars

\* the callers issue one call at a time and wait for its goroutine to finish
SeqInit ==
    /\ urls = {}
    /\ cache = {}
    /\ now = 0
    /\ proc = [p \in Procs |-> IdleProc]
    /\ bg = [p \in Procs |-> NoGoroutine]
    /\ cacheFaults = 0
    /\ sequential = TRUE
    /\ pure = NoApplication
    /\ redirects = 0
    /\ LimiterInit
    /\ ops = 0
    /\ lastDone = NoCall
    /\ assigned = {}

SeqSpec == SeqInit /\ [][Next]_vars

----------------------------------------------------------------------------
(* The sweep of the whole table, on tables of several rows *)

TableIDs == { <<"g","o","-","1">>, <<"g","o","-","2">>, <<"g","o","-","3">> }

\* the rows id can have in the table
RowInputs(id) ==
    { [NewURL(id, "https://example.com/x", e, k) EXCEPT !.IsActive = a] :
        e \in { {}, {0}, {1} }, k \in { APIKeyOf[p] : p \in Procs }, a \in BOOLEAN }

\* tables with at most one row per identifier
Tables ==
    LET Opt(id) == { {} } \cup { {r} : r \in RowInputs(id) } IN
    { a \cup b \cup c : a \in Opt(<<"g","o","-","1">>), b \in Opt(<<"g","o","-","2">>),
                        c \in Opt(<<"g","o","-","3">>) }

\* the service starts on a table that earlier calls have filled
TableInit ==
    /\ urls \in Tables
    /\ cache = {}
    /\ now \in 0..MaxTime
    /\ proc = [p \in Procs |-> IdleProc]
    /\ bg = [p \in Procs |-> NoGoroutine]
    /\ cacheFaults = 0
    /\ sequential = TRUE
    /\ pure = NoApplication
    /\ redirects = 0
    /\ LimiterInit
    /\ ops = 0
    /\ lastDone = NoCall
    /\ assigned = { r.ID : r \in urls }

TableNext ==
    \/ \E p \in Procs : CleanupExpiredURLs(p)
    \/ \E p \in Procs : Return(p)

TableSpec == TableInit /\ [][TableNext]_vars

----------------------------------------------------------------------------
(* Listing while other requests write the table *)

\* tables in which the first caller owns up to two rows and the second up to
\* one, each row active or not, and expired by now or without expiry
ListTables ==
    { t \in Tables :
        \A r \in t : /\ r.ExpiresAt \in { {}, {0} }
                     /\ r.CreatedByAPIKey =
                            APIKeyOf[IF r.ID = <<"g","o","-","3">> THEN "p2" ELSE "p1"] }

\* the table earlier calls have filled, with callers that do not wait for
\* each other
ListInit ==
    /\ urls \in ListTables
    /\ cache = {}
    /\ now = MaxTime
    /\ proc = [p \in Procs |-> IdleProc]
    /\ bg = [p \in Procs |-> NoGoroutine]
    /\ cacheFaults = 0
    /\ sequential = FALSE
    /\ pure = NoApplication
    /\ redirects = 0
    /\ LimiterInit
    /\ ops = 0
    /\ lastDone = NoCall
    /\ assigned = { r.ID : r \in urls }

ListNext ==
    \/ \E p \in Procs : ListURLs_Count(p)
    \/ \E p \in Procs : ListURLs_Page(p)
    \/ \E p \in Procs : CleanupExpiredURLs(p)
    \/ \E p \in Procs : DeleteURL_Begin(p)
    \/ \E p \in Procs : DeleteURL_Store(p)
    \/ \E p \in Procs : DeleteURL_Invalidate(p)
    \/ \E p \in Procs : Return(p)

ListSpec == ListInit /\ [][ListNext]_vars

----------------------------------------------------------------------------
(* Lookups and redirects of one accessible record, with no other calls *)

\* the table holds one active record that has not expired, with no clicks
RedirectInit ==
    /\ urls \in { {r} : r \in { x \in RowInputs(<<"g","o","-","1">>) : IsAccessible(x, 0) } }
    /\ cache = {}
    /\ now = 0
    /\ proc = [p \in Procs |-> IdleProc]
    /\ bg = [p \in Procs |-> NoGoroutine]
    /\ cacheFaults = 0
    /\ sequential = FALSE
    /\ pure = NoApplication
    /\ redirects = 0
    /\ LimiterInit
    /\ ops = 0
    /\ lastDone = NoCall
    /\ assigned = { r.ID : r \in urls }

RedirectNext ==
    \/ \E p \in Procs : GetURL_Begin(p)
    \/ \E p \in Procs : GetURL_Store(p)
    \/ \E p \in Procs : GetURL_Set(p)
    \/ \E p \in Procs : Redirect_Increment(p)
    \/ \E p \in Procs : Redirect_Invalidate(p)
    \/ \E p \in Procs : Return(p)
    \/ Tick
    \/ CacheExpire

RedirectSpec == RedirectInit /\ [][RedirectNext]_vars

----------------------------------------------------------------------------
(* Requests for the QR code of one identifier, with no other calls *)

\* the table is empty or holds one record, in any condition
QRInit ==
    /\ urls \in { {} } \cup { {r} : r \in RowInputs(<<"g","o","-","1">>) }
    /\ cache = {}
    /\ now = 0
    /\ proc = [p \in Procs |-> IdleProc]
    /\ bg = [p \in Procs |-> NoGoroutine]
    /\ cacheFaults = 0
    /\ sequential = TRUE
    /\ pure = NoApplication
    /\ redirects = 0
    /\ LimiterInit
    /\ ops = 0
    /\ lastDone = NoCall
    /\ assigned = { r.ID : r \in urls }

QRNext ==
    \/ \E p \in Procs : GetQRCode_Begin(p)
    \/ \E p \in Procs : GetURL_Store(p)
    \/ \E p \in Procs : GetURL_Set(p)
    \/ \E p \in Procs : Return(p)
    \/ Tick
    \/ CacheExpire

QRSpec == QRInit /\ [][QRNext]_vars

----------------------------------------------------------------------------
(* Callers that cancel the context they passed: the ctx parameter of the   *)
(* functions of URLService, handed on to every call of the store and of    *)
(* the cache, except in the goroutine of GetURLForRedirect, which makes    *)
(* its own with context.Background()                                       *)

\* the caller of p cancels the context of the call that is running
Cancel(p) ==
    /\ proc[p].pc \notin {"idle", "done"}
    /\ ~ proc[p].cancelled
    /\ proc' = [proc EXCEPT ![p].cancelled = TRUE]
    /\ UNCHANGED << urls, cache, now, bg, cacheFaults, sequential, pure, redirects, limiterVars, ops,
                    lastDone, assigned >>

\* the context of the redirect that started the goroutine of p is cancelled
\* after the redirect has returned; lines 157-163 never look at it
CancelRedirect(p) ==
    /\ bg[p].pc # "none"
    /\ ~ bg[p].cancelled
    /\ bg' = [bg EXCEPT ![p].cancelled = TRUE]
    /\ UNCHANGED << urls, cache, now, proc, cacheFaults, sequential, pure, redirects, limiterVars, ops,
                    lastDone, assigned >>

CancelNext ==
    \/ Next
    \/ \E p \in Procs : Cancel(p)
    \/ \E p \in Procs : CancelRedirect(p)

CancelSpec == SeqInit /\ [][CancelNext]_vars

----------------------------------------------------------------------------
(* Requests passing the rate limiter while its cleanup runs:               *)
(* middleware/logging.go 123-210. Allow and a round of cleanup each hold   *)
(* the mutex from their first statement to their last                      *)

\* the variables of the service, which the limiter never touches
serviceVars ==
    << urls, cache, proc, bg, cacheFaults, sequential, pure, redirects, ops, lastDone,
       assigned >>

\* line 196: the middleware names the client of the request of h
Allow_Begin(h) ==
    /\ rlCall[h].pc = "idle"
    /\ \E apiKey \in APIKeyHeaders, clientIP \in ClientIPs :
        rlCall' = [rlCall EXCEPT ![h] =
            [pc |-> "lock", key |-> getClientID(apiKey, clientIP), ok |-> FALSE]]
    /\ UNCHANGED << serviceVars, now, rl, rlGhost >>

\* line 124: rl.mutex.Lock()
Allow_Lock(h) ==
    /\ rlCall[h].pc = "lock"
    /\ rl.mutex = ""
    /\ rl' = [rl EXCEPT !.mutex = h]
    /\ rlCall' = [rlCall EXCEPT ![h].pc = "locked"]
    /\ UNCHANGED << serviceVars, now, rlGhost >>

\* lines 125-155: the body of Allow with time.Now() read under the mutex,
\* and the deferred Unlock
Allow_Body(h) ==
    /\ rlCall[h].pc = "locked"
    /\ rl.mutex = h
    /\ LET key == rlCall[h].key
           ok == Allowed(rl.requests, key, now)
       IN
       /\ rl' = [requests |-> RecordedAfterAllow(rl.requests, key, now), mutex |-> ""]
       /\ rlCall' = [rlCall EXCEPT ![h] = [pc |-> "idle", key |-> key, ok |-> ok]]
       /\ rlGhost' =
            [ allowed |-> IF ok
                          THEN [rlGhost.allowed EXCEPT ![key] = Append(@, now)]
                          ELSE rlGhost.allowed,
              uncleaned |-> RecordedAfterAllow(rlGhost.uncleaned, key, now),
              agrees |-> rlGhost.agrees /\ (ok = Allowed(rlGhost.uncleaned, key, now)),
              evicted |-> rlGhost.evicted ]
    /\ UNCHANGED << serviceVars, now >>

\* lines 163-164: the ticker fires and cleanup takes the mutex
cleanup_Lock ==
    /\ rlCall[Cleaner].pc = "idle"
    /\ rl.mutex = ""
    /\ rl' = [rl EXCEPT !.mutex = Cleaner]
    /\ rlCall' = [rlCall EXCEPT ![Cleaner].pc = "locked"]
    /\ UNCHANGED << serviceVars, now, rlGhost >>

\* lines 165-182: one round of cleanup, and the Unlock
cleanup_Body ==
    /\ rlCall[Cleaner].pc = "locked"
    /\ rl.mutex = Cleaner
    /\ rl' = [requests |-> cleanup(rl.requests, now), mutex |-> ""]
    /\ rlCall' = [rlCall EXCEPT ![Cleaner].pc = "idle"]
    /\ rlGhost' = [rlGhost EXCEPT
            !.evicted = @ \cup (DOMAIN rl.requests \ DOMAIN cleanup(rl.requests, now))]
    /\ UNCHANGED << serviceVars, now >>

\* the clock of the limiter advances
LimiterTick ==
    /\ now < MaxLimiterTime
    /\ now' = now + 1
    /\ UNCHANGED << serviceVars, limiterVars >>

LimiterNext ==
    \/ \E h \in Handlers : Allow_Begin(h)
    \/ \E h \in Handlers : Allow_Lock(h)
    \/ \E h \in Handlers : Allow_Body(h)
    \/ cleanup_Lock
    \/ cleanup_Body
    \/ LimiterTick

LimiterSpec == Init /\ [][LimiterNext]_vars

----------------------------------------------------------------------------
(* The functions of the service applied on their own, once in a behaviour, *)
(* to more inputs than the calls above submit                              *)

\* n times the letter a
Pad(n) == [k \in 1..n |-> "a"]

\* the characters of the custom identifiers that are tried
CustomIDChars == { "a", "Z", "9", "-", "_", " " }

\* req.CustomID (non-empty): every string of up to 4 of these characters, the
\* reserved words in several spellings, and strings around the length limit
CustomIDInputs ==
    UNION { [1..n -> CustomIDChars] : n \in 1..4 }
      \cup reservedWords
      \cup { <<"A","P","I">>, <<"A","p","i">>, <<"A","d","m","i","n">>,
             <<"P","R","O","D">>, <<"a","p","i","s">>, <<"a","p","i"," ">>,
             <<"\t","w","w","w","\n">>,
             <<"\f","g","o","-","1">>, <<"g","o","-","1","U+000B">>,
             <<"U+00A0","w","w","w","U+0085">>, <<"U+3000","a","b","c","\r">>,
             <<"a","\f","b","c">>, <<"U+200B","a","b","c">> }
      \cup { Pad(49), Pad(50), Pad(51),
             <<" ">> \o Pad(50) \o <<" ">>, <<" ">> \o Pad(51),
             Pad(49) \o <<"-">>, Pad(49) \o <<"_">>, Pad(50) \o <<"-">> }

\* url_service.go 41-47: the custom identifier is trimmed, then validated
ValidateCustomID_Apply ==
    /\ pure = NoApplication
    /\ \E raw \in CustomIDInputs :
          LET customID == TrimSpace(raw) IN
          pure' = [ fn |-> "ValidateCustomID", arg |-> raw,
                    out |-> [ id |-> customID,
                              err |-> IF ValidateCustomID(customID)
                                      THEN NoError
                                      ELSE NewValidationError("custom_id") ] ]
    /\ UNCHANGED << urls, cache, now, proc, bg, cacheFaults, sequential, redirects, limiterVars, ops,
                    lastDone, assigned >>

\* the lengths a generator is constructed with
LengthInputs == 0..7

\* the values rand.Int returns that are tried: the ends of the three ranges
\* of the alphabet
DrawValues == { 0, 35, 61 }

\* id_generator.go 24-48: NewIDGenerator(length).Generate()
Generate_Apply ==
    /\ pure = NoApplication
    /\ \E length \in LengthInputs :
          \E draws \in [1..NewIDGenerator(length) -> DrawValues] :
              pure' = [ fn |-> "Generate", arg |-> [length |-> length, draws |-> draws],
                        out |-> Generate(NewIDGenerator(length), draws) ]
    /\ UNCHANGED << urls, cache, now, proc, bg, cacheFaults, sequential, redirects, limiterVars, ops,
                    lastDone, assigned >>

\* options.Page and options.Limit as received, and the counts of the store
PageInputs == { 0 - 1, 0, 1, 2, 4, 5, 6 }
LimitInputs == { 0 - 1, 0, 1, 2, 20, 100, 101 }
TotalCountInputs == { 0, 1, 2, 3, 19, 20, 21, 95, 100, 101 }

\* url_service.go 174-209: the pagination metadata of ListURLs
PaginationMeta_Apply ==
    /\ pure = NoApplication
    /\ \E page \in PageInputs, limit \in LimitInputs, totalCount \in TotalCountInputs :
          LET options == [Page |-> page, Limit |-> limit] IN
          pure' = [ fn |-> "PaginationMeta",
                    arg |-> [options |-> options, totalCount |-> totalCount],
                    out |-> PaginationMeta(NormalizeOptions(options), totalCount) ]
    /\ UNCHANGED << urls, cache, now, proc, bg, cacheFaults, sequential, redirects, limiterVars, ops,
                    lastDone, assigned >>

\* 62 to the power k
RECURSIVE Pow62(_)
Pow62(k) == IF k = 0 THEN Int64Of(1) ELSE MulSmall64(Pow62(k - 1), base62Base)


\* num of EncodeNumber: small numbers, the powers of 62 and their neighbours,
\* powers of two, the largest and the negative int64
NumberInputs ==
    { Int64Of(n) : n \in { 0, 1, 9, 10, 35, 36, 61, 62, 63, 3843, 3844, 3845,
                           123456, 238327, 238328, 2147483647 } }
        \cup { Pow62(k) : k \in 1..10 }
        \cup { Add64(Pow62(k), MinusOne64) : k \in 1..10 }
        \cup { Add64(Pow62(k), Int64Of(1)) : k \in 1..10 }
        \cup { MulSmall64(Pow62(k), 61) : k \in 1..9 }
        \cup { << 0, 0, 1, 0 >>, << 65535, 65535, 0, 0 >>, << 0, 0, 0, 1 >>,
               << 0, 0, 0, 16384 >>, MaxInt64, Add64(MaxInt64, MinusOne64),
               MinusOne64, MinInt64 }

\* id_generator.go 51-95: EncodeNumber, and DecodeToNumber of its result
EncodeNumber_Apply ==
    /\ pure = NoApplication
    /\ \E num \in NumberInputs :
          pure' = [ fn |-> "EncodeNumber",
                    arg |-> num,
                    out |-> [ encoded |-> EncodeNumber(num),
                              decoded |-> DecodeToNumber(UTF8(EncodeNumber(num))) ] ]
    /\ UNCHANGED << urls, cache, now, proc, bg, cacheFaults, sequential, redirects, limiterVars, ops,
                    lastDone, assigned >>

\* characters of the strings given to DecodeToNumber and IsValidID
CodecChars == { "0", "1", "a", "Z", "-", "!", "U+00E9" }

\* encoded of DecodeToNumber, id of IsValidID: the strings of up to 3
\* characters, strings of 11 to 13 digits, and the numerals of the largest
\* int64 and of its successor
StringInputs ==
    { << >> }
        \cup { << a >> : a \in CodecChars }
        \cup { << a, b >> : a \in CodecChars, b \in CodecChars }
        \cup { << a, b, c >> : a \in CodecChars, b \in CodecChars, c \in CodecChars }
        \cup { [k \in 1..n |-> "Z"] : n \in 11..13 }
        \cup { << "!" >> \o [k \in 1..12 |-> "Z"], [k \in 1..12 |-> "Z"] \o << "!" >> }
        \cup { << "a", "Z", "l", "8", "N", "0", "y", "5", "8", "M", "7" >>,
               << "a", "Z", "l", "8", "N", "0", "y", "5", "8", "M", "8" >>,
               << "0", "0", "a", "Z", "l", "8", "N", "0", "y", "5", "8", "M", "7" >> }

\* id_generator.go 75-110: DecodeToNumber and IsValidID of the same string
DecodeToNumber_Apply ==
    /\ pure = NoApplication
    /\ \E str \in StringInputs :
          pure' = [ fn |-> "DecodeToNumber",
                    arg |-> str,
                    out |-> [ decoded |-> DecodeToNumber(UTF8(str)),
                              valid |-> IsValidID(str) ] ]
    /\ UNCHANGED << urls, cache, now, proc, bg, cacheFaults, sequential, redirects, limiterVars, ops,
                    lastDone, assigned >>

\* requests: the methods of the API on paths of every registered shape and
\* on some that are not registered
RequestMethods == { "GET", "POST", "PUT", "DELETE", "PATCH" }
RequestPaths ==
    { << "health" >>, << "api", "v1", "urls" >>, << "api", "v1", "urls", "go-1" >>,
      << "api", "v1", "urls", "go-1", "qr" >>, << "api", "v1", "urls", "go-1", "analytics" >>,
      << "api", "v1", "urls", "go-1", "stats" >>, << "swagger", "index.html" >>,
      << "go-1" >>, << "api" >>, << "api", "v2", "urls" >> }

\* urlRepository.UpdateLastAccessed on a table of at most one row
UpdateLastAccessed_Apply ==
    /\ pure = NoApplication
    /\ \E rows \in { {} } \cup { {r} : r \in RowInputs(<<"g","o","-","1">>) },
          id \in { <<"g","o","-","1">>, <<"g","o","-","2">> }, t \in 0..MaxTime :
          pure' = [ fn |-> "UpdateLastAccessed", arg |-> [rows |-> rows, id |-> id, at |-> t],
                    out |-> UpdateLastAccessed(rows, id, t) ]
    /\ UNCHANGED << urls, cache, now, proc, bg, cacheFaults, sequential, redirects, limiterVars, ops,
                    lastDone, assigned >>

ServeHTTP_Apply ==
    /\ pure = NoApplication
    /\ \E method \in RequestMethods, path \in RequestPaths :
          pure' = [ fn |-> "ServeHTTP", arg |-> [method |-> method, path |-> path],
                    out |-> ServeHTTP(routes, method, path) ]
    /\ UNCHANGED << urls, cache, now, proc, bg, cacheFaults, sequential, redirects, limiterVars, ops,
                    lastDone, assigned >>

PureNext ==
    \/ ValidateCustomID_Apply
    \/ Generate_Apply
    \/ PaginationMeta_Apply
    \/ EncodeNumber_Apply
    \/ DecodeToNumber_Apply
    \/ UpdateLastAccessed_Apply
    \/ ServeHTTP_Apply

PureSpec == Init /\ [][PureNext]_vars

----------------------------------------------------------------------------
(* Properties *)

\* pairs of CreateShortURL calls that have both ended, that settled on the
\* same identifier and whose requests passed validation
SameIDCreates ==
    { pq \in Procs \X Procs :
        /\ pq[1] # pq[2]
        /\ \A k \in 1..2 :
              /\ proc[pq[k]].pc = "done"
              /\ proc[pq[k]].op = "CreateShortURL"
              /\ proc[pq[k]].err.Code \in {"ok", ErrCodeConflict}
        /\ proc[pq[1]].id = proc[pq[2]].id
        /\ proc[pq[1]].id # <<>> }

\* C1: of two CreateShortURL calls in flight together for the same
\* identifier, never both succeed; when both passed the uniqueness check on
\* a free identifier exactly one succeeds and the other gets Conflict; and
\* the row under the identifier carries the winner's original_url and owner
\* key, and whatever the cache holds for it carries the winner's original_url.
C1_ConcurrentCreate ==
    \A pq \in SameIDCreates :
        LET p == pq[1]
            q == pq[2]
            id == proc[p].id
        IN
        /\ ~ (proc[p].err = NoError /\ proc[q].err = NoError)
        /\ (~ proc[p].taken /\ ~ proc[q].taken)
              => (proc[p].err = NoError \/ proc[q].err = NoError)
        /\ proc[p].err = NoError =>
              /\ proc[q].err.Code = ErrCodeConflict
              /\ Cardinality(RowsByID(urls, id)) = 1
              /\ \A r \in RowsByID(urls, id) :
                    /\ r.OriginalURL = proc[p].url.OriginalURL
                    /\ r.CreatedByAPIKey = APIKeyOf[p]
              /\ \A e \in CacheGetURL(cache, id) :
                    e.OriginalURL = proc[p].url.OriginalURL

\* both calls passed the uniqueness check for the custom identifier go-1, one
\* inserted its row and cached it, the other failed at the INSERT
C1_Witness ==
    \E pq \in SameIDCreates :
        /\ proc[pq[1]].id = <<"g","o","-","1">>
        /\ proc[pq[1]].err = NoError
        /\ proc[pq[2]].err = NewConflictError("URL ID")
        /\ CacheGetURL(cache, proc[pq[1]].id) # {}

\* C2: the table holds exactly one row for every identifier ever inserted
\* and no other row (no call removes a row), and a CreateShortURL whose
\* identifier had been inserted before, whatever became of that row, has
\* ended with Conflict at the uniqueness check: such an identifier is never
\* carried to the INSERT, by a custom request or by the random generator.
C2_IdentifiersNeverReused ==
    /\ \A id \in assigned : Cardinality(RowsByID(urls, id)) = 1
    /\ \A r \in urls : r.ID \in assigned
    /\ \A p \in Procs :
          (proc[p].op = "CreateShortURL" /\ proc[p].taken)
             => (proc[p].pc = "done" /\ proc[p].err = NewConflictError("Custom ID"))

\* a CreateShortURL for an identifier whose row is no longer active ended
\* with Conflict
C2_Witness ==
    \E p \in Procs :
        /\ proc[p].op = "CreateShortURL"
        /\ proc[p].pc = "done"
        /\ proc[p].taken
        /\ proc[p].err.Code = ErrCodeConflict
        /\ RowsByID(urls, proc[p].id) # {}
        /\ ~ RowOf(urls, proc[p].id).IsActive

\* C3: once every call and every goroutine has finished, with no failed
\* cache call, no timed-out entry and no row that a sweep could have changed
\* (no row has an expiry), every cached value agrees with the row of its
\* identifier in original_url, is_active, expires_at and click_count.
C3_CacheAgreesWhenQuiet ==
    (Quiet /\ cacheFaults = 0 /\ \A r \in urls : r.ExpiresAt = {})
       => \A e \in cache : \A r \in RowsByID(urls, e.ID) :
             /\ e.OriginalURL = r.OriginalURL
             /\ e.IsActive = r.IsActive
             /\ e.ExpiresAt = r.ExpiresAt
             /\ e.ClickCount = r.ClickCount

\* C4: no step lowers the click_count of a row.
C4_ClickCountNeverDecreases ==
    [][ \A r \in urls : \A s \in RowsByID(urls', r.ID) :
            s.ClickCount >= r.ClickCount ]_vars

\* C5: at the step in which GetURL settles its answer (the cache answers,
\* or the store has been read and checked), a row that is active and expired
\* makes the answer Expired, and a row that is not active makes it NotFound.
C5_ResolveOfExpiredOrInactive ==
    [][ \A p \in Procs :
            ( /\ proc[p].pc \in {"idle", "gu_store"}
              /\ proc'[p].pc \in {"done", "gu_set"}
              /\ proc'[p].op = "GetURL" )
            => \A r \in RowsByID(urls, proc'[p].id) :
                  /\ (r.IsActive /\ IsExpired(r, now))
                        => ( /\ proc'[p].pc = "done"
                             /\ proc'[p].err.Code = ErrCodeExpired )
                  /\ (~ r.IsActive)
                        => ( /\ proc'[p].pc = "done"
                             /\ proc'[p].err.Code = ErrCodeNotFound ) ]_vars

\* the instants at which accessibility is evaluated: before, at and after
\* every expiry the requests carry
Instants == (0 - 1) .. MaxTime

\* the records the service holds: rows, cached values, records in hand
Records == urls \cup cache \cup { proc[p].url : p \in Procs }

\* C6 as stated: a record is accessible at an instant exactly when it is
\* active and has no expiry or an expiry later than the instant, so that at
\* the instant of its expiry it is not accessible.
C6_AccessibleStrictlyBefore ==
    \A u \in Records : \A t \in Instants :
        IsAccessible(u, t)
           <=> (u.IsActive /\ (u.ExpiresAt = {} \/ \E e \in u.ExpiresAt : e > t))

\* C6: a record is accessible at an instant exactly when it is active and
\* has no expiry or an expiry not earlier than the instant: at the instant
\* of its expiry it is still accessible.
C6_AccessibleUntilExpiry ==
    \A u \in Records : \A t \in Instants :
        IsAccessible(u, t)
           <=> (u.IsActive /\ (u.ExpiresAt = {} \/ \E e \in u.ExpiresAt : e >= t))

\* GetURL read a row at the very instant of its expiry and found it accessible
C6_Witness ==
    \E p \in Procs :
        /\ proc[p].pc = "gu_set"
        /\ proc[p].url.ExpiresAt = {now}
        /\ proc[p].url \in urls

\* C7: once the goroutine of a successful GetURLForRedirect has run its
\* increment, callers taking turns and the cache never at fault, the row's
\* click_count is one more than it was when the call returned and its
\* last_accessed_at is set, to a time not before the call.
C7_RedirectCountsOneClick ==
    \A p \in Procs :
        (sequential /\ cacheFaults = 0 /\ bg[p].pc = "invalidate")
           => LET r == RowOf(urls, bg[p].id) IN
              /\ r.ClickCount = bg[p].clicks + 1
              /\ r.LastAccessedAt # {}
              /\ \A t \in r.LastAccessedAt : t >= bg[p].at

\* C8: click_count and last_accessed_at of a row change only in the
\* increment step of the goroutine of a redirect for that row, and then
\* together: one more click, last access now.
C8_ClicksChangeOnlyOnRedirect ==
    [][ \A r \in urls : \A s \in RowsByID(urls', r.ID) :
            (s.ClickCount # r.ClickCount \/ s.LastAccessedAt # r.LastAccessedAt)
               => /\ \E p \in Procs :
                        /\ bg[p].pc = "increment"
                        /\ bg'[p].pc = "invalidate"
                        /\ bg[p].id = r.ID
                  /\ s.ClickCount = r.ClickCount + 1
                  /\ s.LastAccessedAt = {now} ]_vars

\* the GetURL calls that directly follow a successful CreateShortURL without
\* expiry and ask for the identifier it returned
ResolvesAfterCreate ==
    { p \in Procs :
        /\ sequential
        /\ proc[p].pc = "done"
        /\ proc[p].op = "GetURL"
        /\ lastDone.op = "CreateShortURL"
        /\ lastDone.Code = "ok"
        /\ lastDone.ExpiresAt = {}
        /\ proc[p].id = lastDone.id }

\* C9: a GetURL that directly follows a successful CreateShortURL without
\* expiry, for the identifier it returned, succeeds with the original_url
\* that was submitted, whether the cache write of the create went through
\* or failed.
C9_CreateThenResolve ==
    \A p \in ResolvesAfterCreate :
        /\ proc[p].err = NoError
        /\ proc[p].url.OriginalURL = lastDone.OriginalURL
        /\ ValidateOriginalURL(proc[p].url.OriginalURL)

\* the cache write of the create failed and the record came from the store
C9_Witness ==
    \E p \in ResolvesAfterCreate :
        /\ lastDone.cacheErr
        /\ proc[p].err = NoError
        /\ proc[p].url.CreatedByAPIKey # ""

\* the lookups (GetURL, GetURLForRedirect) that directly follow a successful
\* UpdateURL to is_active = false, or a successful DeleteURL, of the same
\* identifier
ResolvesAfterDeactivation ==
    { p \in Procs :
        /\ sequential
        /\ proc[p].pc = "done"
        /\ proc[p].op \in {"GetURL", "GetURLForRedirect"}
        /\ lastDone.op \in {"UpdateURL", "DeleteURL"}
        /\ lastDone.Code = "ok"
        /\ ~ lastDone.IsActive
        /\ proc[p].id = lastDone.id }

\* C10: callers taking turns, the lookup that follows a successful
\* deactivation or deletion returns NotFound.
C10_NotFoundAfterDeactivation ==
    \A p \in ResolvesAfterDeactivation : proc[p].err.Code = ErrCodeNotFound

\* two strings are equal up to the case of their letters
EqualFold(a, b) ==
    /\ Len(a) = Len(b)
    /\ \A k \in 1..Len(a) : LowerChar(a[k]) = LowerChar(b[k])

\* the words no custom identifier may equal
ReservedNames ==
    { <<"a","p","i">>, <<"h","e","a","l","t","h">>, <<"a","d","m","i","n">>,
      <<"w","w","w">>, <<"a","p","p">>, <<"d","e","v">>,
      <<"s","t","a","g","e">>, <<"p","r","o","d">> }

\* C11: a custom identifier passes validation exactly when, trimmed of
\* surrounding whitespace, it has 3 to 50 characters, all of them ASCII
\* letters, digits or hyphens, and differs from every reserved word whatever
\* the case of its letters; otherwise the call fails with Validation.
C11_CustomIDValidation ==
    pure.fn = "ValidateCustomID" =>
        LET id == TrimSpace(pure.arg)
            wellFormed ==
                /\ Len(id) >= 3
                /\ Len(id) <= 50
                /\ \A k \in 1..Len(id) :
                      id[k] \in Digits \cup LowerCase \cup UpperCase \cup {"-"}
                /\ \A w \in ReservedNames : ~ EqualFold(id, w)
        IN
        /\ pure.out.id = id
        /\ IF wellFormed
           THEN pure.out.err = NoError
           ELSE pure.out.err = NewValidationError("custom_id")

\* an identifier of 50 letters, submitted with a blank on either side, passed
C11_Witness ==
    /\ pure.fn = "ValidateCustomID"
    /\ Len(pure.arg) = 52
    /\ Len(pure.out.id) = 50
    /\ pure.out.err = NoError

\* C13: a generator constructed with length n returns n symbols of the
\* alphabet 0-9a-zA-Z when n is at least 3 and 6 of them otherwise (the
\* service constructs its generator with 6), and IsValidID accepts them.
C13_GeneratedIDs ==
    pure.fn = "Generate" =>
        /\ Len(pure.out) = IF pure.arg.length >= 3 THEN pure.arg.length ELSE 6
        /\ \A k \in 1..Len(pure.out) :
              pure.out[k] \in Digits \cup LowerCase \cup UpperCase
        /\ IsValidID(pure.out)

\* the generator of the service drew the first, the last lower-case and the
\* last symbol of the alphabet
C13_Witness ==
    /\ pure.fn = "Generate"
    /\ pure.arg.length = 6
    /\ pure.out = <<"0", "z", "Z", "0", "z", "Z">>

\* the least number of pages of perPage entries that hold totalCount entries
Ceiling(totalCount, perPage) ==
    CHOOSE n \in 0..totalCount : n * perPage >= totalCount /\ (n - 1) * perPage < totalCount

\* C20 as stated: total_pages is the ceiling of total_count / limit, has_next
\* says that the current page is before the last and has_prev that it is
\* after the first, for the normalised page and limit.
C20_TotalPagesIsCeiling ==
    pure.fn = "PaginationMeta" =>
        /\ pure.out.PerPage \in 1..100
        /\ pure.out.CurrentPage >= 1
        /\ pure.out.TotalPages = Ceiling(pure.arg.totalCount, pure.out.PerPage)
        /\ pure.out.HasNext = (pure.out.CurrentPage < pure.out.TotalPages)
        /\ pure.out.HasPrev = (pure.out.CurrentPage > 1)

\* C20: total_pages is the ceiling of total_count / limit, but 1 when
\* total_count is 0; has_next says that the current page is before
\* total_pages and has_prev that it is after the first, for the normalised
\* page and limit.
C20_TotalPagesAtLeastOne ==
    pure.fn = "PaginationMeta" =>
        /\ pure.out.PerPage \in 1..100
        /\ pure.out.CurrentPage >= 1
        /\ pure.out.TotalPages =
              IF pure.arg.totalCount = 0
              THEN 1
              ELSE Ceiling(pure.arg.totalCount, pure.out.PerPage)
        /\ pure.out.HasNext = (pure.out.CurrentPage < pure.out.TotalPages)
        /\ pure.out.HasPrev = (pure.out.CurrentPage > 1)

\* limit 20 and 95 records: 5 pages, and page 5 has a previous and no next page
C20_Witness ==
    /\ pure.fn = "PaginationMeta"
    /\ pure.arg = [options |-> [Page |-> 5, Limit |-> 20], totalCount |-> 95]
    /\ pure.out.TotalPages = 5
    /\ ~ pure.out.HasNext
    /\ pure.out.HasPrev

----------------------------------------------------------------------------
(* The random-identifier loop of CreateShortURL *)

\* the candidates the generator of the service can produce
Candidates == { Generate(NewIDGenerator(6), draws) : draws \in RandomDraws }

\* p takes a step of CreateShortURL that comes before the insert
CreateChecks(p) ==
    /\ proc[p].pc \in {"idle", "cr_generate"}
    /\ proc'[p] # proc[p]
    /\ proc'[p].op = "CreateShortURL"

\* the step of p is a round of the loop: it follows a failed round, or is the
\* first round of a request without a custom identifier
IsRound(p) ==
    /\ CreateChecks(p)
    /\ \/ proc[p].pc = "cr_generate"
       \/ proc'[p].pc = "cr_generate"
       \/ proc'[p].err = NewInternalError("Failed to generate unique ID after multiple attempts")
       \/ proc'[p].pc = "cr_insert" /\ proc'[p].drawn # << >>

\* C12: a Create without a custom identifier runs at most 10 rounds of
\* generate-and-check; a round whose candidate has no row in the table ends
\* the loop with that candidate, a round whose candidate has a row counts as
\* failed, whatever other identifiers are free, the 10th failed round returns
\* Internal, and no round writes the table or the cache; the count of failed
\* rounds grows with every failed round and never passes 10, so the loop
\* terminates
C12_RandomIDLoop ==
    [][\A p \in Procs :
        IsRound(p) =>
            /\ urls' = urls /\ cache' = cache
            /\ proc[p].attempts < MaxAttempts
            /\ proc'[p].attempts <= MaxAttempts
            /\ proc'[p].pc \in {"cr_insert", "cr_generate", "done"}
            /\ proc'[p].drawn \in Candidates
            /\ Len(proc'[p].drawn) = 6
            /\ proc'[p].pc = "cr_insert" <=> ~ \E r \in urls : r.ID = proc'[p].drawn
            /\ proc'[p].pc = "cr_insert" =>
                   /\ proc'[p].id = proc'[p].drawn
                   /\ proc'[p].url.ID = proc'[p].drawn
                   /\ proc'[p].attempts = proc[p].attempts
            /\ proc'[p].pc = "cr_generate" =>
                   /\ proc'[p].attempts = proc[p].attempts + 1
                   /\ proc'[p].attempts < MaxAttempts
            /\ proc'[p].pc = "done" =>
                   /\ proc'[p].attempts = MaxAttempts
                   /\ proc'[p].err.Code = ErrCodeInternalError
                   /\ proc'[p].url = NoURL
      ]_vars

\* while the table holds one of the two candidates, one Create has returned
\* Internal after 10 rounds that all drew it, and another Create has drawn it
\* in its first rounds and then the free candidate, which it goes on to insert
C12_Witness ==
    \E p, q \in Procs :
        /\ proc[p].pc = "done" /\ proc[p].op = "CreateShortURL"
        /\ proc[p].err = NewInternalError("Failed to generate unique ID after multiple attempts")
        /\ proc[p].attempts = MaxAttempts
        /\ \E r \in urls : r.ID = proc[p].drawn
        /\ proc[q].pc = "cr_insert" /\ proc[q].op = "CreateShortURL"
        /\ proc[q].attempts >= 2
        /\ proc[q].id = proc[q].drawn
        /\ proc[q].id # proc[p].drawn
        /\ ~ \E r \in urls : r.ID = proc[q].id

----------------------------------------------------------------------------
(* Rejected calls *)

\* the call of p returns in this step
Returns(p) == proc'[p].pc = "done" /\ proc[p].pc # "done"

\* the call of p returns a rejection: Validation from CreateShortURL or
\* UpdateURL, Unauthorized from UpdateURL or DeleteURL
Rejects(p) ==
    /\ Returns(p)
    /\ \/ /\ proc'[p].op \in {"CreateShortURL", "UpdateURL"}
          /\ proc'[p].err.Code = ErrCodeValidation
       \/ /\ proc'[p].op \in {"UpdateURL", "DeleteURL"}
          /\ proc'[p].err.Code = ErrCodeUnauthorized

\* C14: a Create or Update that returns Validation and an Update or Delete
\* that returns Unauthorized has written neither the table nor the cache: it
\* returns in its first step, and that step leaves both as they were
C14_RejectedCallsWriteNothing ==
    [][\A p \in Procs :
        Rejects(p) => /\ proc[p].pc = "idle"
                      /\ urls' = urls
                      /\ cache' = cache
      ]_vars

\* an Update or a Delete of somebody else's record has returned Unauthorized,
\* and the record is still active in the table and still in the cache
C14_Witness ==
    \E p \in Procs :
        /\ proc[p].pc = "done"
        /\ proc[p].op \in {"UpdateURL", "DeleteURL"}
        /\ proc[p].err.Code = ErrCodeUnauthorized
        /\ \E r \in urls : r.ID = proc[p].id /\ r.IsActive
                           /\ r.CreatedByAPIKey # APIKeyOf[p]
        /\ CacheGetURL(cache, proc[p].id) # {}

----------------------------------------------------------------------------
(* Failures of the cache *)

\* the positions at which a call writes or invalidates the cache
CachePositions == {"cr_cache", "gu_set", "up_invalidate", "del_invalidate"}

\* what the call of p returns from a position of CachePositions
ResultAfterCache(p) ==
    [err |-> NoError, url |-> IF proc[p].op = "DeleteURL" THEN NoURL ELSE proc[p].url]

\* C15: a Create, Resolve, Update or Delete that has reached its cache write
\* or invalidation returns success with the record it holds, and the same
\* whether the cache call succeeds or fails; a Resolve whose cache read fails
\* goes on to the store lookup
C15_CacheFailuresAbsorbed ==
    [][\A p \in Procs :
        /\ (proc[p].pc \in CachePositions /\ proc'[p] # proc[p]) =>
               /\ proc'[p].pc = "done"
               /\ [err |-> proc'[p].err, url |-> proc'[p].url] = ResultAfterCache(p)
               /\ urls' = urls
        /\ ( /\ proc[p].pc = "idle"
             /\ proc'[p].op \in {"GetURL", "GetURLForRedirect"}
             /\ cacheFaults' # cacheFaults ) =>
               /\ proc'[p].pc = "gu_store"
               /\ proc'[p].err = NoResult
      ]_vars

\* a Create, Update or Delete has returned success although its cache call
\* failed
C15_Witness ==
    \E p \in Procs :
        /\ proc[p].pc = "done"
        /\ proc[p].op \in {"CreateShortURL", "UpdateURL", "DeleteURL"}
        /\ proc[p].err = NoError
        /\ proc[p].cacheErr
        /\ cacheFaults > 0

----------------------------------------------------------------------------
(* The fields UpdateURL writes *)

\* C16: the persist step of an Update changes in the row only the fields its
\* patch supplied: every other field of the row, whatever concurrent calls did
\* to it since the Update read the row, keeps the value it has in the table
\* just before the step, and id and owner never change
C16_UpdateWritesOnlySuppliedFields ==
    [][\A p \in Procs :
        (proc[p].pc = "up_store" /\ proc'[p].pc = "up_invalidate") =>
            \A r \in RowsByID(urls, proc[p].id) :
                \E s \in RowsByID(urls', proc[p].id) :
                    /\ s.ID = r.ID
                    /\ s.CreatedByAPIKey = r.CreatedByAPIKey
                    /\ s.ClickCount = r.ClickCount
                    /\ s.LastAccessedAt = r.LastAccessedAt
                    /\ "original_url" \notin proc[p].patch => s.OriginalURL = r.OriginalURL
                    /\ "expires_at" \notin proc[p].patch => s.ExpiresAt = r.ExpiresAt
                    /\ "is_active" \notin proc[p].patch => s.IsActive = r.IsActive
      ]_vars

\* the part of C16 that holds: no step changes the owner of a row (rows are
\* matched by id)
C16_IdentityNeverChanges ==
    [][\A r \in urls : \A s \in RowsByID(urls', r.ID) :
            s.CreatedByAPIKey = r.CreatedByAPIKey ]_vars

----------------------------------------------------------------------------
(* Ownership *)

\* the calls that are reserved to the owner of a record
OwnerCalls == {"UpdateURL", "DeleteURL", "GetURLStats"}

\* the active rows of id
ActiveRows(id) == { r \in urls : r.ID = id /\ r.IsActive }

\* C17: UpdateURL, DeleteURL and GetURLStats decide in this order: no active
\* row of the id gives NotFound; an active row of another owner gives
\* Unauthorized; only the owner gets the row or goes on to write it; and
\* every write of UpdateURL and DeleteURL hits a row of the caller
C17_OwnerChecks ==
    [][\A p \in Procs :
        /\ (proc[p].pc = "idle" /\ proc'[p].op \in OwnerCalls) =>
               LET found == ActiveRows(proc'[p].id)
                   mine == { r \in found : r.CreatedByAPIKey = APIKeyOf[p] }
               IN
               /\ urls' = urls
               /\ found = {} => /\ proc'[p].pc = "done"
                                /\ proc'[p].err.Code = ErrCodeNotFound
                                /\ proc'[p].url = NoURL
               /\ (found # {} /\ mine = {}) =>
                                /\ proc'[p].pc = "done"
                                /\ proc'[p].err.Code = ErrCodeUnauthorized
                                /\ proc'[p].url = NoURL
               /\ mine # {} => proc'[p].err.Code \notin {ErrCodeNotFound, ErrCodeUnauthorized}
               /\ (proc'[p].op = "GetURLStats" /\ mine # {}) =>
                                /\ proc'[p].err = NoError
                                /\ proc'[p].url \in mine
        /\ (proc[p].pc \in {"up_store", "del_store"} /\ proc'[p] # proc[p]) =>
               \A r \in urls : \A s \in RowsByID(urls', r.ID) :
                   s # r => /\ r.ID = proc[p].id
                            /\ r.CreatedByAPIKey = APIKeyOf[p]
      ]_vars

\* the owner has obtained the record from GetURLStats while another caller
\* was refused the same record
C17_Witness ==
    \E p \in Procs, q \in Procs :
        /\ proc[p].pc = "done" /\ proc[p].op = "GetURLStats"
        /\ proc[p].err = NoError
        /\ proc[p].url.CreatedByAPIKey = APIKeyOf[p]
        /\ proc[q].pc = "done" /\ proc[q].op \in OwnerCalls
        /\ proc[q].id = proc[p].id
        /\ proc[q].err.Code = ErrCodeUnauthorized

----------------------------------------------------------------------------
(* The sweep of expired rows *)

\* the rows a sweep at instant t is to deactivate
Due(rows, t) == { r \in rows : r.IsActive /\ \E e \in r.ExpiresAt : e < t }

\* p calls CleanupExpiredURLs in this step
Sweeps(p) == proc[p].pc = "idle" /\ proc'[p].op = "CleanupExpiredURLs"

\* C18: a sweep deactivates exactly the active rows whose expiry is earlier
\* than now and returns their number; rows without expiry, with an expiry at
\* or after now, or already inactive stay as they are; nothing is left for a
\* second sweep at the same instant, which returns 0
C18_SweepDeactivatesExpired ==
    [][\A p \in Procs :
        Sweeps(p) =>
            /\ urls' = (urls \ Due(urls, now))
                          \cup { [r EXCEPT !.IsActive = FALSE] : r \in Due(urls, now) }
            /\ \A r \in urls \ Due(urls, now) : r \in urls'
            /\ proc'[p].err = NoError
            /\ proc'[p].attempts = Cardinality(Due(urls, now))
            /\ Due(urls', now) = {}
            /\ lastDone.op = "CleanupExpiredURLs" => proc'[p].attempts = 0
      ]_vars

\* a sweep has deactivated two rows and left a row that expires at this very
\* instant active
C18_Witness ==
    \E p \in Procs :
        /\ proc[p].pc = "done" /\ proc[p].op = "CleanupExpiredURLs"
        /\ proc[p].attempts = 2
        /\ Cardinality({ r \in urls : ~ r.IsActive /\ \E e \in r.ExpiresAt : e < now }) >= 2
        /\ \E r \in urls : r.IsActive /\ r.ExpiresAt = {now}

----------------------------------------------------------------------------
(* Listing *)

\* p runs the first statement of ListURLs, the count, in this step
Counts(p) == proc[p].pc = "idle" /\ proc'[p].op = "ListURLs"

\* p runs the second statement of ListURLs, the page, in this step
Pages(p) == proc[p].pc = "ls_page" /\ proc'[p].pc = "done"

\* the rows of the caller with key that pass the optional filter
OwnRows(key, filter) ==
    { r \in urls : r.CreatedByAPIKey = key /\ (filter # {} => r.IsActive \in filter) }

\* C19: ListURLs returns only rows of the caller that pass the filter, and its
\* total_count is the number of the caller's rows that pass the filter when
\* they are counted, whatever rows other owners have in the table and
\* whatever other requests write meanwhile
C19_ListOnlyOwnRecords ==
    [][\A p \in Procs :
        /\ Counts(p) =>
              /\ proc'[p].meta.TotalCount =
                    Cardinality(OwnRows(APIKeyOf[p], proc'[p].options.IsActive))
              /\ urls' = urls
        /\ Pages(p) =>
              /\ proc'[p].listed \subseteq OwnRows(APIKeyOf[p], proc[p].options.IsActive)
              /\ proc'[p].meta.TotalCount = proc[p].meta.TotalCount
              /\ proc'[p].err = NoError
              /\ urls' = urls
      ]_vars

\* a caller has listed its active rows and got one of the two on a page,
\* while the table also holds an active row of another owner and the other
\* caller is in the middle of a call
C19_Witness ==
    \E p \in Procs :
        /\ proc[p].pc = "done" /\ proc[p].op = "ListURLs"
        /\ proc[p].options.IsActive = {TRUE}
        /\ proc[p].meta.TotalCount = 2
        /\ Cardinality(proc[p].listed) = 1
        /\ \E r \in urls : r.CreatedByAPIKey # APIKeyOf[p] /\ r.IsActive
        /\ \E q \in Procs \ {p} : proc[q].pc \notin {"idle", "done"}

----------------------------------------------------------------------------
(* The options of ListURLs *)

\* C21: ListURLs replaces a page of 0 or less by 1, a limit of 0 or less by
\* 20 and a limit above 100 by 100 and leaves other values alone, so that
\* per_page is in 1..100, current_page is at least 1, and the page asked of
\* the store has at most 100 rows
C21_OptionsNormalised ==
    pure.fn = "PaginationMeta" =>
        LET page == pure.arg.options.Page
            limit == pure.arg.options.Limit
            asked == [Page |-> pure.out.CurrentPage, Limit |-> pure.out.PerPage]
        IN
        /\ pure.out.CurrentPage = IF page <= 0 THEN 1 ELSE page
        /\ pure.out.PerPage = IF limit <= 0 THEN 20 ELSE IF limit > 100 THEN 100 ELSE limit
        /\ pure.out.PerPage \in 1..100
        /\ pure.out.CurrentPage >= 1
        /\ PageSize(asked, pure.arg.totalCount) <= 100

\* a limit of 101 was cut to 100 and a page of 0 became page 1, with 101
\* records to list
C21_Witness ==
    /\ pure.fn = "PaginationMeta"
    /\ pure.arg = [options |-> [Page |-> 0, Limit |-> 101], totalCount |-> 101]
    /\ pure.out.PerPage = 100
    /\ pure.out.CurrentPage = 1
    /\ pure.out.HasNext

----------------------------------------------------------------------------
(* The number codec *)

\* C22: for every int64 n >= 0, DecodeToNumber(EncodeNumber(n)) is n, without
\* an error
C22_DecodeInvertsEncode ==
    (pure.fn = "EncodeNumber" /\ ~ IsNegative64(pure.arg)) =>
        /\ pure.out.decoded.num = pure.arg
        /\ pure.out.decoded.err = NoError

\* the largest int64, which has 11 digits, was encoded and decoded
C22_Witness ==
    /\ pure.fn = "EncodeNumber"
    /\ pure.arg = MaxInt64
    /\ Len(pure.out.encoded) = 11
    /\ pure.out.decoded.num = MaxInt64

\* the symbols of base 62 in the order of their values
Base62Symbols ==
    << "0","1","2","3","4","5","6","7","8","9" >>
      \o << "a","b","c","d","e","f","g","h","i","j","k","l","m" >>
      \o << "n","o","p","q","r","s","t","u","v","w","x","y","z" >>
      \o << "A","B","C","D","E","F","G","H","I","J","K","L","M" >>
      \o << "N","O","P","Q","R","S","T","U","V","W","X","Y","Z" >>

\* the value of a symbol
SymbolValue(c) == (CHOOSE j \in 1..62 : Base62Symbols[j] = c) - 1

\* the number a string of symbols denotes when its first symbol weighs most
RECURSIVE ValueMostFirst(_, _)
ValueMostFirst(str, acc) ==
    IF str = << >> THEN acc
    ELSE ValueMostFirst(Tail(str), Add64(MulSmall64(acc, 62), Int64Of(SymbolValue(Head(str)))))

\* EncodeNumber of n >= 0 is the base-62 numeral of n, most significant
\* digit first and without leading zeros
IsBase62Numeral ==
    (pure.fn = "EncodeNumber" /\ ~ IsNegative64(pure.arg)) =>
        /\ Len(pure.out.encoded) >= 1
        /\ \A k \in 1..Len(pure.out.encoded) :
              \E j \in 1..62 : Base62Symbols[j] = pure.out.encoded[k]
        /\ ValueMostFirst(pure.out.encoded, Int64Of(0)) = pure.arg
        /\ (Len(pure.out.encoded) > 1 => pure.out.encoded[1] # "0")

\* the results EncodeNumber gives for 0, 1 and 62
SmallExamples ==
    pure.fn = "EncodeNumber" =>
        /\ pure.arg = Int64Of(0) => pure.out.encoded = << "0" >>
        /\ pure.arg = Int64Of(1) => pure.out.encoded = << "1" >>
        /\ pure.arg = Int64Of(62) => pure.out.encoded = << "1", "0" >>

\* C23 as stated: EncodeNumber writes the base-62 numeral most significant
\* digit first over 0-9, a-z, A-Z, with encode(0) = "0", encode(1) = "1",
\* encode(62) = "10" and encode(123456) = "W7e"
C23_EncodeExamplesAsStated ==
    /\ IsBase62Numeral
    /\ SmallExamples
    /\ (pure.fn = "EncodeNumber" /\ pure.arg = Int64Of(123456)) =>
           pure.out.encoded = << "W", "7", "e" >>

\* C23, amended: the same with encode(123456) = "w7e", since 123456 is
\* 32 * 62^2 + 7 * 62 + 14 and the symbol of value 32 is the lower-case w
C23_EncodeBase62 ==
    /\ IsBase62Numeral
    /\ SmallExamples
    /\ (pure.fn = "EncodeNumber" /\ pure.arg = Int64Of(123456)) =>
           pure.out.encoded = << "w", "7", "e" >>

\* 123456 was encoded, to three symbols
C23_Witness ==
    /\ pure.fn = "EncodeNumber"
    /\ pure.arg = Int64Of(123456)
    /\ Len(pure.out.encoded) = 3

\* the characters of str that are outside the alphabet
Offending(str) ==
    { k \in 1..Len(str) : ~ \E j \in 1..62 : Base62Symbols[j] = str[k] }

\* C24: DecodeToNumber fails on every string with a character outside the
\* alphabet, and its error names one such character and the zero-based index
\* at which that character stands in the string
C24_DecodeErrorNamesPosition ==
    (pure.fn = "DecodeToNumber" /\ Offending(pure.arg) # {}) =>
        /\ pure.out.decoded.err.Code = ErrCodeValidation
        /\ \E k \in Offending(pure.arg) :
              /\ pure.out.decoded.character = pure.arg[k]
              /\ pure.out.decoded.position = k - 1

\* the part of C24 that holds: DecodeToNumber fails on every such string
C24_DecodeFails ==
    (pure.fn = "DecodeToNumber" /\ Offending(pure.arg) # {}) =>
        pure.out.decoded.err = NewValidationError("decode_error")

\* C25: IsValidID is true exactly of the non-empty strings of alphabet
\* symbols, and on a non-empty string DecodeToNumber succeeds exactly when
\* IsValidID is true
C25_IsValidIDAgreesWithDecode ==
    pure.fn = "DecodeToNumber" =>
        /\ pure.out.valid = (pure.arg # << >> /\ Offending(pure.arg) = {})
        /\ pure.arg # << >> => (pure.out.valid = (pure.out.decoded.err = NoError))

\* a string of 12 symbols, whose number does not fit 64 bits, is valid and
\* decodes without an error
C25_Witness ==
    /\ pure.fn = "DecodeToNumber"
    /\ Len(pure.arg) = 12
    /\ pure.out.valid
    /\ pure.out.decoded.err = NoError

----------------------------------------------------------------------------
(* Error kinds and their HTTP status *)

\* the status of each error kind
StatusOfKind ==
    [ validation_failed |-> 400, unauthorized |-> 401, not_found |-> 404,
      conflict |-> 409, rate_limit_exceeded |-> 429, expired |-> 410,
      internal_error |-> 500 ]

\* C26: every error a service call returns has one of the seven kinds, and
\* handleError answers each kind with its one status: Validation 400,
\* Unauthorized 401, NotFound 404, Conflict 409, RateLimitExceeded 429,
\* Expired 410, Internal 500, and any other error with 500
C26_ErrorKindsAndStatus ==
    /\ \A p \in Procs :
          (proc[p].pc = "done" /\ proc[p].err # NoError) =>
              /\ proc[p].err.Code \in DOMAIN StatusOfKind
              /\ handleError(proc[p].err) = StatusOfKind[proc[p].err.Code]
    /\ \A kind \in DOMAIN StatusOfKind :
          handleError([Code |-> kind, About |-> ""]) = StatusOfKind[kind]
    /\ handleError(NewRateLimitError("minute")) = 429
    /\ handleError([Code |-> "teapot", About |-> ""]) = 500
    /\ handleError(PlainError) = 500

\* a Resolve has returned Expired, which is answered with 410, while another
\* call has returned an error of another kind
C26_Witness ==
    \E p \in Procs, q \in Procs :
        /\ proc[p].pc = "done" /\ proc[p].err.Code = ErrCodeExpired
        /\ handleError(proc[p].err) = 410
        /\ proc[q].pc = "done"
        /\ proc[q].err.Code \in {ErrCodeUnauthorized, ErrCodeValidation, ErrCodeConflict}

----------------------------------------------------------------------------
(* Lookups after a sweep *)

\* the lookups (GetURL, GetURLForRedirect) that directly follow a sweep, of
\* an identifier whose row is expired and no longer active
ResolvesAfterSweep ==
    { p \in Procs :
        /\ sequential
        /\ proc[p].pc = "done"
        /\ proc[p].op \in {"GetURL", "GetURLForRedirect"}
        /\ lastDone.op = "CleanupExpiredURLs"
        /\ lastDone.Code = "ok"
        /\ \E r \in RowsByID(urls, proc[p].id) :
              ~ r.IsActive /\ \E e \in r.ExpiresAt : e < now }

\* C28: callers taking turns, no cache call failing and no cached value timed
\* out, the lookup that follows the sweep of a record returns NotFound, also
\* when the record was cached before the sweep
C28_NotFoundAfterSweep ==
    \A p \in ResolvesAfterSweep :
        cacheFaults = 0 => proc[p].err.Code = ErrCodeNotFound

----------------------------------------------------------------------------
(* What GetURL writes into the cache *)

\* p takes a step of GetURL or GetURLForRedirect
Resolves(p) ==
    /\ proc'[p] # proc[p]
    /\ proc'[p].op \in {"GetURL", "GetURLForRedirect"}
    /\ proc'[p].pc # "idle"

\* C30: GetURL writes the cache only after it has read a row from the store
\* that is active and not expired at that moment, and it writes that row; a
\* lookup that ends NotFound, Expired or Internal leaves the cache as it is;
\* a lookup the cache answers returns at once, without a call to the store
C30_ResolveCachesOnlyAccessible ==
    [][\A p \in Procs :
        Resolves(p) =>
            /\ proc[p].pc = "idle" =>
                  /\ cache' = cache /\ urls' = urls
                  /\ proc'[p].pc \in {"done", "gu_store"}
                  /\ proc'[p].pc = "done" =>
                        /\ proc'[p].err = NoError
                        /\ proc'[p].url \in cache
            /\ proc[p].pc = "gu_store" =>
                  /\ cache' = cache /\ urls' = urls
                  /\ proc'[p].pc \in {"done", "gu_set"}
                  /\ proc'[p].pc = "done" =>
                        proc'[p].err.Code \in {ErrCodeNotFound, ErrCodeExpired,
                                               ErrCodeInternalError}
                  /\ proc'[p].pc = "gu_set" =>
                        /\ proc'[p].url \in urls
                        /\ proc'[p].url.ID = proc[p].id
                        /\ proc'[p].url.IsActive
                        /\ \A e \in proc'[p].url.ExpiresAt : ~ (now > e)
            /\ proc[p].pc = "gu_set" =>
                  /\ urls' = urls
                  /\ proc'[p].err = NoError
                  /\ cache' \in {cache, CacheSetURL(cache, proc[p].url)}
      ]_vars

\* a lookup has read an expired row from the store and returned Expired, and
\* the cache holds nothing for the identifier
C30_Witness ==
    \E p \in Procs :
        /\ proc[p].pc = "done" /\ proc[p].op = "GetURL"
        /\ proc[p].err.Code = ErrCodeExpired
        /\ \E r \in RowsByID(urls, proc[p].id) : r.IsActive /\ IsExpired(r, now)
        /\ CacheGetURL(cache, proc[p].id) = {}

----------------------------------------------------------------------------
(* Counting concurrent redirects *)

\* the goroutines that have not yet run their increment
PendingIncrements == { p \in Procs : bg[p].pc = "increment" }

\* C29: with lookups and redirects of one accessible record running
\* concurrently and no other call, every successful GetURLForRedirect adds
\* exactly one click: the clicks in the table and the increments still to
\* run always add up to the number of successful redirects, so that the
\* click_count has grown by exactly that number once all goroutines are done
C29_EveryRedirectCounted ==
    \A r \in urls :
        /\ r.ClickCount + Cardinality(PendingIncrements) = redirects
        /\ (\A p \in Procs : bg[p].pc = "none") => r.ClickCount = redirects

\* three redirects of two callers have succeeded, all goroutines are done and
\* the record has three clicks
C29_Witness ==
    /\ redirects = 3
    /\ \A p \in Procs : bg[p].pc = "none"
    /\ \E r \in urls : r.ClickCount = 3
    /\ \A p \in Procs : proc[p].pc = "done" /\ proc[p].op = "GetURLForRedirect"


----------------------------------------------------------------------------
(* Cancellation of the caller's context *)

\* the calls that write the store and then the cache
Writers == {"CreateShortURL", "UpdateURL", "DeleteURL"}

\* C27: a CreateShortURL, UpdateURL or DeleteURL whose context was cancelled
\* while it ran returns an error; if its store call had taken effect, the
\* matching cache call takes effect too (the record is cached after a
\* create, not cached after an update or a delete); and the goroutine of a
\* redirect whose caller cancelled makes no further store or cache call
C27_CancelledCallsFailCleanly ==
    [][\A p \in Procs :
        /\ (Returns(p) /\ proc'[p].cancelled /\ proc'[p].op \in Writers)
              => /\ proc'[p].err.Code # NoError.Code
                 /\ proc[p].pc = "cr_cache" => CacheGetURL(cache', proc[p].id) # {}
                 /\ proc[p].pc \in {"up_invalidate", "del_invalidate"}
                       => CacheGetURL(cache', proc[p].id) = {}
        /\ (bg[p].cancelled /\ bg'[p] # bg[p]) => urls' = urls /\ cache' = cache
      ]_vars

\* a cancelled call that has written the store never reports success
C27_NoSuccessAfterCancelledWrite ==
    \A p \in Procs :
        (proc[p].pc = "done" /\ proc[p].cancelled /\ proc[p].op \in Writers)
            => proc[p].err.Code # NoError.Code

\* the goroutine of a cancelled redirect never counts the click
C27_CancelledRedirectStops ==
    [][\A p \in Procs :
        (bg[p].cancelled /\ bg[p].pc = "increment" /\ bg'[p].pc = "invalidate")
            => urls' = urls]_vars

----------------------------------------------------------------------------
(* GetURLForRedirect and its goroutine *)

\* C31: GetURLForRedirect returns what its lookup found (the cache entry, or
\* the row read from the store) in the step that starts the goroutine, before
\* the goroutine has made any call; the goroutine first calls
\* IncrementClickCount and then, whether or not a row was counted, the cache
\* invalidation, and then ends; no step of the goroutine changes the state
\* or the result of any call
C31_RedirectFireAndForget ==
    [][\A p \in Procs :
        /\ (Returns(p) /\ proc'[p].op = "GetURLForRedirect") =>
              /\ urls' = urls
              /\ proc'[p].err = NoError =>
                    /\ bg'[p].pc = "increment"
                    /\ proc[p].pc = "idle" => proc'[p].url \in cache
                    /\ proc[p].pc = "gu_set" => proc'[p].url = proc[p].url
              /\ proc'[p].err # NoError => bg' = bg
        /\ (bg[p].pc # "none" /\ bg'[p] # bg[p]) =>
              /\ proc' = proc /\ lastDone' = lastDone
              /\ bg[p].pc = "increment" =>
                    /\ bg'[p].pc = "invalidate"
                    /\ cache' = cache
                    /\ urls' = IncrementClickCount(urls, bg[p].id, now)
              /\ bg[p].pc = "invalidate" =>
                    /\ bg'[p].pc = "none"
                    /\ urls' = urls
                    /\ cache' \in {cache, CacheDeleteURL(cache, bg[p].id)}
      ]_vars

\* a redirect has returned the record with no error, the increment of its
\* goroutine has matched no row (the record is inactive and has no click),
\* and the goroutine is about to invalidate the cache
C31_Witness ==
    \E p \in Procs :
        /\ proc[p].pc = "done" /\ proc[p].op = "GetURLForRedirect"
        /\ proc[p].err = NoError
        /\ bg[p].pc = "invalidate" /\ bg[p].id = proc[p].id
        /\ ClickTargets(urls, bg[p].id) = {}
        /\ \A r \in urls : r.ClickCount = 0

----------------------------------------------------------------------------
(* GetURLStats against the lookup of GetURL *)

\* p runs GetURLStats
Stats(p) == proc[p].pc = "idle" /\ proc'[p].op = "GetURLStats"

\* C32: GetURLStats of the owner answers as the store lookup of GetURL does:
\* NotFound without an active row, Expired for an active row whose
\* expires_at has passed, and the row otherwise
C32_StatsResolvesAsGetURL ==
    [][\A p \in Procs :
        Stats(p) =>
            LET rows == { r \in GetByID(urls, proc'[p].id) :
                            r.CreatedByAPIKey = APIKeyOf[p] }
                others == GetByID(urls, proc'[p].id) \ rows
            IN
            /\ (rows = {} /\ others = {}) => proc'[p].err.Code = ErrCodeNotFound
            /\ \A r \in rows :
                  IF IsExpired(r, now)
                  THEN proc'[p].err.Code = ErrCodeExpired
                  ELSE proc'[p].err = NoError /\ proc'[p].url = r
      ]_vars

----------------------------------------------------------------------------
(* The sliding window of the rate limiter *)

\* the requests of key allowed so far with a timestamp in (t - window, t]
AllowedIn(key, t) ==
    { i \in 1..Len(rlGhost.allowed[key]) :
        /\ rlGhost.allowed[key][i] > t - rlWindow
        /\ rlGhost.allowed[key][i] <= t }

\* h runs the body of Allow
Allows(h) == rlCall[h].pc = "locked" /\ rlCall'[h].pc = "idle"

\* C33: with Allow calls of several goroutines and the cleanup interleaved
\* in every order, no key ever has more than limit allowed requests with
\* timestamps in a window (t - window, t], for any instant t; and an Allow
\* for one key leaves the recorded requests, the allowed requests and the
\* decision of every other key as they were
C33_SlidingWindow ==
    /\ [](\A key \in ClientIDs, t \in 0..MaxLimiterTime :
            Cardinality(AllowedIn(key, t)) <= rlLimit)
    /\ [][\A h \in Handlers :
            Allows(h) =>
                \A k \in ClientIDs \ {rlCall[h].key} :
                    /\ (k \in DOMAIN rl'.requests) = (k \in DOMAIN rl.requests)
                    /\ Recorded(rl'.requests, k) = Recorded(rl.requests, k)
                    /\ rlGhost'.allowed[k] = rlGhost.allowed[k]
                    /\ Allowed(rl'.requests, k, now) = Allowed(rl.requests, k, now)
         ]_vars

\* one key has used up its window and its last request was denied, while a
\* request of another key was allowed at the same instant
C33_Witness ==
    \E h1, h2 \in Handlers :
        /\ rlCall[h1].pc = "idle" /\ rlCall[h2].pc = "idle"
        /\ rlCall[h1].key \in ClientIDs /\ rlCall[h2].key \in ClientIDs
        /\ rlCall[h1].key # rlCall[h2].key
        /\ ~ rlCall[h1].ok /\ rlCall[h2].ok
        /\ Cardinality(AllowedIn(rlCall[h1].key, now)) = rlLimit
        /\ Len(rlGhost.allowed[rlCall[h2].key]) > 0
        /\ rlGhost.allowed[rlCall[h2].key][Len(rlGhost.allowed[rlCall[h2].key])] = now


\* the cleanup runs its round
Cleans == rlCall[Cleaner].pc = "locked" /\ rlCall'[Cleaner].pc = "idle"

\* the timestamps of s after the instant c, in their order
Since(s, c) == SelectSeq(s, LAMBDA x : x > c)

\* C34: a round of cleanup removes the entry of a key exactly when none of
\* its timestamps is younger than twice the window, adds no entry, and keeps
\* every timestamp that is inside the current window; and every decision of
\* Allow is the one the limiter would have taken had cleanup never run
C34_CleanupIsInvisible ==
    /\ [](rlGhost.agrees)
    /\ [][Cleans =>
            /\ DOMAIN rl'.requests \subseteq DOMAIN rl.requests
            /\ \A k \in DOMAIN rl.requests :
                /\ (k \notin DOMAIN rl'.requests)
                      = (Since(rl.requests[k], now - 2 * rlWindow) = << >>)
                /\ Since(Recorded(rl'.requests, k), now - rlWindow)
                      = Since(rl.requests[k], now - rlWindow)
         ]_vars

\* cleanup has removed the entry of a key, the limiter has then allowed a
\* request of that key and recorded it, and has denied a request since
C34_Witness ==
    \E k \in rlGhost.evicted :
        /\ k \in DOMAIN rl.requests
        /\ Since(rl.requests[k], now - rlWindow) # << >>
        /\ \E h \in Handlers : rlCall[h].pc = "idle" /\ rlCall[h].key = k /\ ~ rlCall[h].ok


\* C38: an Allow that denies adds no timestamp for the key (it only drops
\* those that have left the window), and an Allow that allows adds its own;
\* a request is allowed exactly when fewer than limit recorded timestamps of
\* its key are younger than the window, a timestamp exactly window old
\* counting as outside
C38_DeniedIsNotRecorded ==
    [][\A h \in Handlers :
        Allows(h) =>
            LET key == rlCall[h].key
                before == Recorded(rl.requests, key)
                after == Recorded(rl'.requests, key)
                inside == { i \in 1..Len(before) : now - before[i] < rlWindow }
            IN
            /\ rlCall'[h].ok = (Cardinality(inside) < rlLimit)
            /\ rlCall'[h].ok => after = Since(before, now - rlWindow) \o << now >>
            /\ ~ rlCall'[h].ok =>
                  /\ after = Since(before, now - rlWindow)
                  /\ rlGhost'.allowed = rlGhost.allowed
      ]_vars

\* a key was allowed limit requests at instant 0, was denied after that, and
\* is allowed again at the instant the requests of instant 0 are exactly
\* window old, although it kept sending
C38_Witness ==
    \E h1, h2 \in Handlers :
        /\ h1 # h2
        /\ now = rlWindow
        /\ rlCall[h1].pc = "idle" /\ rlCall[h1].ok
        /\ rlCall[h2].pc = "idle" /\ ~ rlCall[h2].ok /\ rlCall[h2].key = rlCall[h1].key
        /\ rlCall[h1].key \in ClientIDs
        /\ LET all == rlGhost.allowed[rlCall[h1].key] IN
           /\ Len(all) = rlLimit + 1
           /\ \A i \in 1..rlLimit : all[i] = 0
           /\ all[rlLimit + 1] = now

----------------------------------------------------------------------------
(* The size parameter of the QR endpoint *)

\* the digits of a size parameter: what follows its sign if it has one
Unsigned(v) == IF v # << >> /\ v[1] \in {"+", "-"} THEN Tail(v) ELSE v

\* the parameter is an optional sign and at least one decimal digit
Numeral(v) ==
    /\ Unsigned(v) # << >>
    /\ \A k \in 1..Len(Unsigned(v)) : \E j \in 1..10 : DecimalDigits[j] = Unsigned(v)[k]

\* the number a size parameter spells, if it spells one of at most four
\* digits
SpelledSize(query) ==
    { (IF v[1] = "-" THEN 0 - 1 ELSE 1) * DigitGroup(StripZeros(Unsigned(v)), 1) :
        v \in { w \in query : Numeral(w) /\ Len(StripZeros(Unsigned(w))) <= 4 } }

\* the size parameter spells a number of more than four digits
SpelledFarOutside(query) ==
    \E v \in query : Numeral(v) /\ Len(StripZeros(Unsigned(v))) > 4

\* a request for a QR code has been answered with the redirect to the image
QRAnswered(p) ==
    /\ proc[p].op = "GetQRCode"
    /\ proc[p].pc = "done"
    /\ GetQRCode_Response(p).status = 301

\* C35 as stated: the size GetQRCode uses is the size parameter clamped to [50,1000]:
\* 50 for a number below 50, 1000 for a number above 1000, the number itself
\* inside the range, and 200 when the parameter is absent or no number
C35_QRSizeClamped ==
    \A p \in Procs :
        QRAnswered(p) =>
            LET query == proc[p].query
                size == GetQRCode_Response(p).size
            IN
            /\ SpelledSize(query) = {} /\ ~ SpelledFarOutside(query) => size = {200}
            /\ \A n \in SpelledSize(query) :
                  size = { IF n < 50 THEN 50 ELSE IF n > 1000 THEN 1000 ELSE n }

\* C35 as amended: in the redirect that answers a request for the QR code of
\* a record that resolves, a number in [50,1000] is used as it is, and every
\* other parameter, absent, no number or outside the range, gives the default
\* 200; a request whose record does not resolve is answered with the status
\* of the error and no size
C35_QRSizeInRangeOrDefault ==
    \A p \in Procs :
        proc[p].op = "GetQRCode" /\ proc[p].pc = "done" =>
            LET query == proc[p].query
                answer == GetQRCode_Response(p)
            IN
            IF proc[p].err = NoError
            THEN /\ answer.status = 301
                 /\ SpelledSize(query) = {} => answer.size = {200}
                 /\ \A n \in SpelledSize(query) :
                       answer.size = { IF n < 50 \/ n > 1000 THEN 200 ELSE n }
            ELSE /\ answer.status \in {400, 404, 410, 500}
                 /\ answer.size = {}

\* GetQRCode was asked for size 1001 of a record that is not cached, found it
\* in the table, and answered with size 200
C35_Witness ==
    \E p \in Procs :
        /\ QRAnswered(p)
        /\ proc[p].query = { << "1", "0", "0", "1" >> }
        /\ GetQRCode_Response(p).size = {200}
        /\ proc[p].url \in urls
        /\ CacheGetURL(cache, proc[p].id) # {}

----------------------------------------------------------------------------
(* The HTTP surface *)

\* the operations of the HTTP surface, under the prefix /api/v1 of the API
\* group: method, path and the handler of the operation
Surface ==
    { << "POST", << "api", "v1", "urls" >>, "CreateShortURL" >>,
      << "GET", << "api", "v1", "urls", "go-1" >>, "GetURLInfo" >>,
      << "GET", << "api", "v1", "urls" >>, "ListURLs" >>,
      << "PUT", << "api", "v1", "urls", "go-1" >>, "UpdateURL" >>,
      << "DELETE", << "api", "v1", "urls", "go-1" >>, "DeleteURL" >>,
      << "GET", << "go-1" >>, "RedirectURL" >>,
      << "GET", << "api", "v1", "urls", "go-1", "qr" >>, "GetQRCode" >> }

\* C36: every operation of the HTTP surface reaches its handler; a PUT on
\* /urls/{id} reaches UpdateURL as a DELETE on it reaches DeleteURL
C36_EveryOperationRouted ==
    pure.fn = "ServeHTTP" =>
        \A s \in Surface :
            (pure.arg.method = s[1] /\ pure.arg.path = s[2]) => pure.out = s[3]

----------------------------------------------------------------------------
(* Soft deletion *)

\* C37: a row whose is_active is false stays inactive in every step of the
\* service, whatever calls run and however they interleave; and UpdateURL,
\* DeleteURL and GetURLStats started on an inactive row return NotFound
C37_DeactivationIsFinal ==
    [][/\ \A r \in urls : ~ r.IsActive =>
             \A n \in RowsByID(urls', r.ID) : ~ n.IsActive
       /\ \A p \in Procs :
             (/\ proc[p].pc = "idle" /\ proc'[p].op \in OwnerCalls
              /\ RowsByID(urls, proc'[p].id) # {}
              /\ \A r \in RowsByID(urls, proc'[p].id) : ~ r.IsActive)
                => proc'[p].pc = "done" /\ proc'[p].err.Code = ErrCodeNotFound
      ]_vars

\* the same for callers that run their calls one after the other
C37_DeactivationIsFinalInSequence ==
    [][sequential =>
          \A r \in urls : ~ r.IsActive =>
              \A n \in RowsByID(urls', r.ID) : ~ n.IsActive]_vars

----------------------------------------------------------------------------
(* DecodeToNumber on numerals of any length *)

\* str without its leading zeros, the last symbol kept
RECURSIVE Canonical(_)
Canonical(str) ==
    IF Len(str) > 1 /\ str[1] = "0" THEN Canonical(Tail(str)) ELSE str

\* C39: for every non-empty string over the alphabet DecodeToNumber returns,
\* with no error, the non-negative number whose base-62 numeral the string
\* is: written back by EncodeNumber it is the string without leading zeros
C39_DecodeIsExact ==
    (pure.fn = "DecodeToNumber" /\ IsValidID(pure.arg)) =>
        /\ pure.out.decoded.err = NoError
        /\ ~ IsNegative64(pure.out.decoded.num)
        /\ EncodeNumber(pure.out.decoded.num) = Canonical(pure.arg)

\* the same for the numerals of at most ten symbols, whose value always
\* fits a signed 64-bit integer
C39_DecodeIsExactWhenItFits ==
    (pure.fn = "DecodeToNumber" /\ IsValidID(pure.arg) /\ Len(Canonical(pure.arg)) <= 10) =>
        /\ pure.out.decoded.err = NoError
        /\ ~ IsNegative64(pure.out.decoded.num)
        /\ EncodeNumber(pure.out.decoded.num) = Canonical(pure.arg)

====
